---- MODULE Spec2Model ----
(***************************************************************************)
(* Model of the Fluxel node resolver crate                                 *)
(* (src-tauri/crates/node_resolver/src/lib.rs): Node-style module          *)
(* resolution, typings discovery and their helpers.                        *)
(*                                                                         *)
(* Strings are sequences of one-character strings, so that prefix, suffix, *)
(* slicing, trimming and byte-order comparison are computed as the code    *)
(* computes them.  Option<T> is <<"some", x>> or <<"none", <<>>>>.         *)
(***************************************************************************)
EXTENDS Integers, Sequences, FiniteSets, TLC

VARIABLES pc, op, fs, req, opts, resp, aux

vars == <<pc, op, fs, req, opts, resp, aux>>

----------------------------------------------------------------------------
(* Option values *)

None == <<"none", <<>>>>
Some(x) == <<"some", x>>
IsSome(o) == o[1] = "some"
Unwrap(o) == o[2]

----------------------------------------------------------------------------
(* String literals of the program *)

L_node_modules == <<"n", "o", "d", "e", "_", "m", "o", "d", "u", "l", "e", "s">>
L_package_json == <<"p", "a", "c", "k", "a", "g", "e", ".", "j", "s", "o", "n">>
L_dot == <<".">>
L_dot_slash == <<".", "/">>
L_dotdot_slash == <<".", ".", "/">>
L_dotdot == <<".", ".">>
L_slash == <<"/">>
L_index == <<"i", "n", "d", "e", "x">>
L_ts == <<".", "t", "s">>
L_tsx == <<".", "t", "s", "x">>
L_js == <<".", "j", "s">>
L_mjs == <<".", "m", "j", "s">>
L_cjs == <<".", "c", "j", "s">>
L_d_ts == <<".", "d", ".", "t", "s">>
L_d_mts == <<".", "d", ".", "m", "t", "s">>
L_d_cts == <<".", "d", ".", "c", "t", "s">>
L_import == <<"i", "m", "p", "o", "r", "t">>
L_require == <<"r", "e", "q", "u", "i", "r", "e">>
L_default == <<"d", "e", "f", "a", "u", "l", "t">>
L_types == <<"t", "y", "p", "e", "s">>
L_typings == <<"t", "y", "p", "i", "n", "g", "s">>
L_exports == <<"e", "x", "p", "o", "r", "t", "s">>
L_module == <<"m", "o", "d", "u", "l", "e">>
L_main == <<"m", "a", "i", "n">>
L_browser == <<"b", "r", "o", "w", "s", "e", "r">>
L_at_types_slash == <<"@", "t", "y", "p", "e", "s", "/">>
L_underscores == <<"_", "_">>
L_index_d_ts == <<"i", "n", "d", "e", "x", ".", "d", ".", "t", "s">>
L_index_d_mts == <<"i", "n", "d", "e", "x", ".", "d", ".", "m", "t", "s">>
L_dist_index_d_ts == <<"d", "i", "s", "t", "/", "i", "n", "d", "e", "x", ".", "d", ".", "t", "s">>
L_lib_index_d_ts == <<"l", "i", "b", "/", "i", "n", "d", "e", "x", ".", "d", ".", "t", "s">>
L_types_index_d_ts == <<"t", "y", "p", "e", "s", "/", "i", "n", "d", "e", "x", ".", "d", ".", "t", "s">>
L_build_index_d_ts == <<"b", "u", "i", "l", "d", "/", "i", "n", "d", "e", "x", ".", "d", ".", "t", "s">>

----------------------------------------------------------------------------
(* str: the operations of Rust's str the resolver uses *)

\* The characters of the model in ascending byte order (Rust compares
\* strings byte-wise).
AsciiOrder ==
    <<" ", "*", "-", ".", "/",
      "0", "1", "2", "3", "4", "5", "6", "7", "8", "9",
      "@", "\\", "_",
      "a", "b", "c", "d", "e", "f", "g", "h", "i", "j", "k", "l", "m",
      "n", "o", "p", "q", "r", "s", "t", "u", "v", "w", "x", "y", "z">>

CharSet == {AsciiOrder[i] : i \in 1..Len(AsciiOrder)}

Ord == [c \in CharSet |-> CHOOSE i \in 1..Len(AsciiOrder) : AsciiOrder[i] = c]

RECURSIVE StrLessFrom(_, _, _)
StrLessFrom(a, b, i) ==
    IF i > Len(a) THEN i <= Len(b)
    ELSE IF i > Len(b) THEN FALSE
    ELSE IF a[i] = b[i] THEN StrLessFrom(a, b, i + 1)
    ELSE Ord[a[i]] < Ord[b[i]]

\* a < b in the order of String's Ord
StrLess(a, b) == StrLessFrom(a, b, 1)

StrLeq(a, b) == a = b \/ StrLess(a, b)

starts_with(s, p) == Len(p) <= Len(s) /\ SubSeq(s, 1, Len(p)) = p

ends_with(s, p) == Len(p) <= Len(s) /\ SubSeq(s, Len(s) - Len(p) + 1, Len(s)) = p

\* str::find(char): the 1-based index of the first occurrence, 0 when absent
find(s, c) ==
    IF \E i \in 1..Len(s) : s[i] = c
    THEN CHOOSE i \in 1..Len(s) : s[i] = c /\ \A j \in 1..(i - 1) : s[j] # c
    ELSE 0

\* str::rfind(char)
rfind(s, c) ==
    IF \E i \in 1..Len(s) : s[i] = c
    THEN CHOOSE i \in 1..Len(s) : s[i] = c /\ \A j \in (i + 1)..Len(s) : s[j] # c
    ELSE 0

\* str::replace(char, &str): every occurrence of c becomes r
RECURSIVE replace(_, _, _)
replace(s, c, r) ==
    IF s = <<>> THEN <<>>
    ELSE (IF s[1] = c THEN r ELSE <<s[1]>>) \o replace(Tail(s), c, r)

IsWhitespace(c) == c = " "

RECURSIVE trim_start(_)
trim_start(s) ==
    IF s # <<>> /\ IsWhitespace(s[1]) THEN trim_start(Tail(s)) ELSE s

RECURSIVE trim_end(_)
trim_end(s) ==
    IF s # <<>> /\ IsWhitespace(s[Len(s)])
    THEN trim_end(SubSeq(s, 1, Len(s) - 1)) ELSE s

trim(s) == trim_end(trim_start(s))

\* str::trim_start_matches(&str): the prefix p removed as often as it repeats
RECURSIVE trim_start_matches(_, _)
trim_start_matches(s, p) ==
    IF p # <<>> /\ starts_with(s, p)
    THEN trim_start_matches(SubSeq(s, Len(p) + 1, Len(s)), p)
    ELSE s

\* str::split_once(char): None, or Some(<<before, after>>)
split_once(s, c) ==
    LET i == find(s, c)
    IN  IF i = 0 THEN None
        ELSE Some(<<SubSeq(s, 1, i - 1), SubSeq(s, i + 1, Len(s))>>)

----------------------------------------------------------------------------
(* camino::Utf8Path: the operations of paths the resolver uses (Unix) *)

\* the segments between '/' characters, empty ones included
RECURSIVE SplitSlash(_)
SplitSlash(s) ==
    LET i == find(s, "/")
    IN  IF i = 0 THEN <<s>>
        ELSE <<SubSeq(s, 1, i - 1)>> \o SplitSlash(SubSeq(s, i + 1, Len(s)))

IsAbsolute(p) == starts_with(p, L_slash)

RECURSIVE DropCurDirs(_, _)
DropCurDirs(segs, first) ==
    IF segs = <<>> THEN <<>>
    ELSE IF segs[1] = <<>> \/ (segs[1] = L_dot /\ ~first)
         THEN DropCurDirs(Tail(segs), FALSE)
         ELSE <<segs[1]>> \o DropCurDirs(Tail(segs), FALSE)

\* Path::components: the root flag and the components; empty segments and
\* "." segments other than a leading one of a relative path are skipped.
Components(p) ==
    [abs |-> IsAbsolute(p),
     parts |-> IF p = <<>> THEN <<>>
               ELSE DropCurDirs(SplitSlash(p), ~IsAbsolute(p))]

\* Path == Path compares components
PathEq(a, b) == Components(a) = Components(b)

\* the path text with the separators and "." segments after its last
\* component removed
RECURSIVE StripTrailing(_)
StripTrailing(p) ==
    IF Len(p) > 1 /\ p[Len(p)] = "/" THEN StripTrailing(SubSeq(p, 1, Len(p) - 1))
    ELSE IF Len(p) > 2 /\ ends_with(p, <<"/", ".">>)
         THEN StripTrailing(SubSeq(p, 1, Len(p) - 2))
    ELSE p

\* Path::parent: None for "" and for the root, else the path without its
\* last component
Parent(p) ==
    LET q == StripTrailing(p)
        k == rfind(q, "/")
    IN  IF q = <<>> \/ q = L_slash THEN None
        ELSE IF k = 0 THEN Some(<<>>)
        ELSE IF k = 1 THEN Some(L_slash)
        ELSE Some(StripTrailing(SubSeq(q, 1, k - 1)))

\* PathBuf::join / push: an absolute argument replaces the base
Join(base, p) ==
    IF IsAbsolute(p) THEN p
    ELSE IF base = <<>> THEN p
    ELSE IF base[Len(base)] = "/" THEN base \o p
    ELSE base \o L_slash \o p

\* Path::file_name: the last component when it is a normal one
file_name(p) ==
    LET c == Components(p).parts
    IN  IF c = <<>> \/ c[Len(c)] = L_dotdot \/ c[Len(c)] = L_dot THEN None
        ELSE Some(c[Len(c)])

\* Path::extension: the file name's text after its last '.', when the
\* name does not begin with that '.'
extension(p) ==
    LET f == file_name(p)
    IN  IF ~IsSome(f) THEN None
        ELSE LET k == rfind(Unwrap(f), ".")
             IN  IF k <= 1 THEN None
                 ELSE Some(SubSeq(Unwrap(f), k + 1, Len(Unwrap(f))))

----------------------------------------------------------------------------
(* The filesystem: fs.files and fs.dirs hold canonical absolute paths as  *)
(* component sequences, fs.cwd is the process's working directory,         *)
(* fs.json maps the files that hold parseable JSON to their value, and     *)
(* fs.order is the order in which the OS lists a directory.                *)

RECURSIVE Normalize(_, _)
Normalize(parts, acc) ==
    IF parts = <<>> THEN acc
    ELSE IF parts[1] = L_dot THEN Normalize(Tail(parts), acc)
    ELSE IF parts[1] = L_dotdot
         THEN Normalize(Tail(parts),
                        IF acc = <<>> THEN acc ELSE SubSeq(acc, 1, Len(acc) - 1))
    ELSE Normalize(Tail(parts), Append(acc, parts[1]))

\* the file or directory a path names, as the OS resolves it
Canon(f, p) ==
    LET c == Components(p)
    IN  Normalize(c.parts, IF c.abs THEN <<>> ELSE f.cwd)

is_file(f, p) == p # <<>> /\ Canon(f, p) \in f.files

is_dir(f, p) == p # <<>> /\ Canon(f, p) \in f.dirs

exists(f, p) == is_file(f, p) \/ is_dir(f, p)

----------------------------------------------------------------------------
(* serde_json::Value: <<"str", s>>, <<"arr", values>>, <<"obj", pairs>>   *)
(* with pairs a sequence of <<key, value>> in the map's iteration order,   *)
(* and <<"null", <<>>>> for null, numbers and booleans.                    *)

JStr(s) == <<"str", s>>
JArr(a) == <<"arr", a>>
JObj(m) == <<"obj", m>>
JNull == <<"null", <<>>>>

\* Value::get(&str)
get(v, k) ==
    IF v[1] = "obj" /\ \E i \in 1..Len(v[2]) : v[2][i][1] = k
    THEN Some(v[2][CHOOSE i \in 1..Len(v[2]) : v[2][i][1] = k][2])
    ELSE None

\* Value::as_str
as_str(v) == IF v[1] = "str" THEN Some(v[2]) ELSE None

\* Option::and_then(|v| v.as_str())
and_then_as_str(o) == IF IsSome(o) THEN as_str(Unwrap(o)) ELSE None

\* Option::or_else
or_else(o, p) == IF IsSome(o) THEN o ELSE p

\* read_package_json(dir).ok(): the parsed manifest, None when the file is
\* missing, unreadable or not JSON
read_package_json(f, dir) ==
    LET pkg_path == Join(dir, L_package_json)
    IN  IF is_file(f, pkg_path) /\ Canon(f, pkg_path) \in DOMAIN f.json
        THEN Some(f.json[Canon(f, pkg_path)])
        ELSE None

----------------------------------------------------------------------------
(* Specifier and path helpers *)

is_relative(spec) == starts_with(spec, L_dot_slash) \/ starts_with(spec, L_dotdot_slash)

\* <<package name, subpath>>
split_package_specifier(spec) ==
    LET stripped == IF starts_with(spec, <<"@">>)
                    THEN Some(SubSeq(spec, 2, Len(spec))) ELSE None
        scoped == IF IsSome(stripped) THEN split_once(Unwrap(stripped), "/") ELSE None
        plain == split_once(spec, "/")
    IN  IF IsSome(scoped)
        THEN LET scope == Unwrap(scoped)[1]
                 rest == Unwrap(scoped)[2]
                 inner == split_once(rest, "/")
             IN  IF IsSome(inner)
                 THEN <<<<"@">> \o scope \o L_slash \o Unwrap(inner)[1],
                        L_dot_slash \o Unwrap(inner)[2]>>
                 ELSE <<<<"@">> \o scope \o L_slash \o rest, L_dot>>
        ELSE IF IsSome(plain)
             THEN <<Unwrap(plain)[1], L_dot_slash \o Unwrap(plain)[2]>>
             ELSE <<spec, L_dot>>

RECURSIVE resolve_package_dir(_, _, _, _)
resolve_package_dir(f, current, project_root, package) ==
    LET candidate == Join(Join(current, L_node_modules), package)
    IN  IF exists(f, candidate) THEN Some(candidate)
        ELSE IF IsSome(project_root) /\ PathEq(current, Unwrap(project_root)) THEN None
        ELSE IF ~IsSome(Parent(current)) THEN None
        ELSE resolve_package_dir(f, Unwrap(Parent(current)), project_root, package)

RECURSIVE FirstFileWithExt(_, _, _, _)
FirstFileWithExt(f, stem, extensions, i) ==
    IF i > Len(extensions) THEN None
    ELSE IF is_file(f, stem \o extensions[i]) THEN Some(stem \o extensions[i])
    ELSE FirstFileWithExt(f, stem, extensions, i + 1)

\* a probe that accepts whatever exists at stem + extension
RECURSIVE FirstExistingWithExt(_, _, _, _)
FirstExistingWithExt(f, stem, extensions, i) ==
    IF i > Len(extensions) THEN None
    ELSE IF exists(f, stem \o extensions[i]) THEN Some(stem \o extensions[i])
    ELSE FirstExistingWithExt(f, stem, extensions, i + 1)

resolve_with_extensions_exists(f, target, extensions) ==
    IF is_file(f, target) THEN Some(target)
    ELSE LET suffixed == FirstExistingWithExt(f, target, extensions, 1)
         IN  IF IsSome(suffixed) THEN suffixed
             ELSE IF is_dir(f, target)
                  THEN FirstExistingWithExt(f, Join(target, L_index), extensions, 1)
                  ELSE None

resolve_with_extensions(f, target, extensions) ==
    IF is_file(f, target) THEN Some(target)
    ELSE LET suffixed == FirstFileWithExt(f, target, extensions, 1)
         IN  IF IsSome(suffixed) THEN suffixed
             ELSE IF is_dir(f, target)
                  THEN FirstFileWithExt(f, Join(target, L_index), extensions, 1)
                  ELSE None

resolve_path_like(f, base, specifier, extensions) ==
    LET target == IF starts_with(specifier, L_slash) THEN specifier
                  ELSE Join(base, specifier)
    IN  resolve_with_extensions(f, target, extensions)

RECURSIVE FirstMainField(_, _, _, _, _, _)
FirstMainField(f, pkg_dir, pkg, extensions, keys, i) ==
    IF i > Len(keys) THEN None
    ELSE LET entry == and_then_as_str(get(pkg, keys[i]))
             resolved == IF IsSome(entry)
                         THEN resolve_with_extensions(f, Join(pkg_dir, Unwrap(entry)),
                                                      extensions)
                         ELSE None
         IN  IF IsSome(resolved) THEN resolved
             ELSE FirstMainField(f, pkg_dir, pkg, extensions, keys, i + 1)

\* a resolve_pkg_main that tries module, main and browser before types
resolve_pkg_main_fields_first(f, pkg_dir, pkg_json, extensions) ==
    LET types == IF IsSome(pkg_json)
                 THEN and_then_as_str(or_else(get(Unwrap(pkg_json), L_types),
                                              get(Unwrap(pkg_json), L_typings)))
                 ELSE None
        by_types == IF IsSome(types)
                    THEN resolve_with_extensions(f, Join(pkg_dir, Unwrap(types)),
                                                 extensions)
                    ELSE None
        by_field == IF IsSome(pkg_json)
                    THEN FirstMainField(f, pkg_dir, Unwrap(pkg_json), extensions,
                                        <<L_module, L_main, L_browser>>, 1)
                    ELSE None
    IN  IF IsSome(by_field) THEN by_field
        ELSE IF IsSome(by_types) THEN by_types
        ELSE resolve_with_extensions(f, pkg_dir, extensions)

\* a resolve_pkg_main that probes the package directory only when there is
\* a manifest
resolve_pkg_main_manifest_only(f, pkg_dir, pkg_json, extensions) ==
    LET types == IF IsSome(pkg_json)
                 THEN and_then_as_str(or_else(get(Unwrap(pkg_json), L_types),
                                              get(Unwrap(pkg_json), L_typings)))
                 ELSE None
        by_types == IF IsSome(types)
                    THEN resolve_with_extensions(f, Join(pkg_dir, Unwrap(types)),
                                                 extensions)
                    ELSE None
        by_field == IF IsSome(pkg_json)
                    THEN FirstMainField(f, pkg_dir, Unwrap(pkg_json), extensions,
                                        <<L_module, L_main, L_browser>>, 1)
                    ELSE None
    IN  IF IsSome(by_types) THEN by_types
        ELSE IF IsSome(by_field) THEN by_field
        ELSE IF IsSome(pkg_json) THEN resolve_with_extensions(f, pkg_dir, extensions)
        ELSE None

\* pkg_json is an Option<Value>
resolve_pkg_main(f, pkg_dir, pkg_json, extensions) ==
    LET types == IF IsSome(pkg_json)
                 THEN and_then_as_str(or_else(get(Unwrap(pkg_json), L_types),
                                              get(Unwrap(pkg_json), L_typings)))
                 ELSE None
        by_types == IF IsSome(types)
                    THEN resolve_with_extensions(f, Join(pkg_dir, Unwrap(types)),
                                                 extensions)
                    ELSE None
        by_field == IF IsSome(pkg_json)
                    THEN FirstMainField(f, pkg_dir, Unwrap(pkg_json), extensions,
                                        <<L_module, L_main, L_browser>>, 1)
                    ELSE None
    IN  IF IsSome(by_types) THEN by_types
        ELSE IF IsSome(by_field) THEN by_field
        ELSE resolve_with_extensions(f, pkg_dir, extensions)

detect_format(path) ==
    IF ends_with(path, L_d_ts) \/ ends_with(path, L_d_mts) \/ ends_with(path, L_d_cts)
    THEN "TypeDefinition"
    ELSE LET e == extension(path)
         IN  IF e = Some(<<"c", "j", "s">>) THEN "CommonJs"
             ELSE IF e = Some(<<"m", "j", "s">>) THEN "Esm"
             ELSE IF e = Some(<<"c", "t", "s">>) THEN "CommonJs"
             ELSE IF e = Some(<<"m", "t", "s">>) THEN "Esm"
             ELSE IF e = Some(<<"t", "s">>) \/ e = Some(<<"t", "s", "x">>) THEN "Esm"
             ELSE IF e = Some(<<"j", "s">>) \/ e = Some(<<"j", "s", "x">>) THEN "Esm"
             ELSE "Unknown"

----------------------------------------------------------------------------
(* The exports map *)

RECURSIVE select_export_target(_, _)
RECURSIVE SelectFirstEntry(_, _, _)
RECURSIVE SelectFirstCondition(_, _, _)
RECURSIVE SelectFirstPresent(_, _, _)

\* a loop that returns at the first condition the map has, target or not
SelectFirstPresent(map, conditions, i) ==
    IF i > Len(conditions) THEN None
    ELSE IF IsSome(get(map, conditions[i]))
         THEN select_export_target(Unwrap(get(map, conditions[i])), conditions)
         ELSE SelectFirstPresent(map, conditions, i + 1)

\* Value::Array arm: the first entry that yields a target
SelectFirstEntry(arr, conditions, i) ==
    IF i > Len(arr) THEN None
    ELSE LET target == select_export_target(arr[i], conditions)
         IN  IF IsSome(target) THEN target
             ELSE SelectFirstEntry(arr, conditions, i + 1)

\* Value::Object arm, the loop over the caller's conditions
SelectFirstCondition(map, conditions, i) ==
    IF i > Len(conditions) THEN None
    ELSE LET val == get(map, conditions[i])
             target == IF IsSome(val)
                       THEN select_export_target(Unwrap(val), conditions)
                       ELSE None
         IN  IF IsSome(target) THEN target
             ELSE SelectFirstCondition(map, conditions, i + 1)

select_export_target(value, conditions) ==
    IF value[1] = "str" THEN Some(value[2])
    ELSE IF value[1] = "arr" THEN SelectFirstEntry(value[2], conditions, 1)
    ELSE IF value[1] = "obj"
         THEN LET hit == SelectFirstCondition(value, conditions, 1)
                  default == get(value, L_default)
              IN  IF IsSome(hit) THEN hit
                  ELSE IF IsSome(default)
                       THEN select_export_target(Unwrap(default), conditions)
                       ELSE None
    ELSE None

\* A slice with start > end aborts the process (a Rust panic).
Panic == <<"panic", <<>>>>
IsPanic(o) == o[1] = "panic"

\* a find_map whose captured segment does not skip the pattern's prefix
RECURSIVE FindMapPatternNoPrefix(_, _, _, _)
FindMapPatternNoPrefix(obj, key, conditions, i) ==
    IF i > Len(obj) THEN None
    ELSE LET pattern == obj[i][1]
             value == obj[i][2]
             star_pos == find(pattern, "*")
             prefix == SubSeq(pattern, 1, star_pos - 1)
             suffix == SubSeq(pattern, star_pos + 1, Len(pattern))
         IN  IF star_pos # 0 /\ starts_with(key, prefix) /\ ends_with(key, suffix)
             THEN IF Len(prefix) > Len(key) - Len(suffix) THEN Panic
                  ELSE LET matched == SubSeq(key, 1, Len(key) - Len(suffix))
                           mapped == select_export_target(value, conditions)
                       IN  IF IsSome(mapped)
                           THEN Some(replace(Unwrap(mapped), "*", matched))
                           ELSE FindMapPatternNoPrefix(obj, key, conditions, i + 1)
             ELSE FindMapPatternNoPrefix(obj, key, conditions, i + 1)

\* obj.iter().find_map(..): the first pattern key, in iteration order, that
\* matches the requested key and whose value yields a target
RECURSIVE FindMapPattern(_, _, _, _)
FindMapPattern(obj, key, conditions, i) ==
    IF i > Len(obj) THEN None
    ELSE LET pattern == obj[i][1]
             value == obj[i][2]
             star_pos == find(pattern, "*")
             prefix == SubSeq(pattern, 1, star_pos - 1)
             suffix == SubSeq(pattern, star_pos + 1, Len(pattern))
         IN  IF star_pos # 0 /\ starts_with(key, prefix) /\ ends_with(key, suffix)
             THEN IF Len(prefix) > Len(key) - Len(suffix) THEN Panic
                  ELSE LET matched == SubSeq(key, Len(prefix) + 1,
                                             Len(key) - Len(suffix))
                           mapped == select_export_target(value, conditions)
                       IN  IF IsSome(mapped)
                           THEN Some(replace(Unwrap(mapped), "*", matched))
                           ELSE FindMapPattern(obj, key, conditions, i + 1)
             ELSE FindMapPattern(obj, key, conditions, i + 1)

\* the local `target` of resolve_exports: the string selected from the
\* exports map, before it is joined onto the package directory
ExportsTarget(pkg, subpath, conditions) ==
    LET exports == get(pkg, L_exports)
        key == L_dot_slash \o trim_start_matches(subpath, L_dot_slash)
    IN  IF ~IsSome(exports) THEN None
        ELSE IF subpath = L_dot THEN select_export_target(Unwrap(exports), conditions)
        ELSE IF Unwrap(exports)[1] = "obj"
             THEN LET value == get(Unwrap(exports), key)
                  IN  IF IsSome(value)
                      THEN select_export_target(Unwrap(value), conditions)
                      ELSE FindMapPattern(Unwrap(exports)[2], key, conditions, 1)
        ELSE None

resolve_exports(pkg, subpath, pkg_dir, conditions) ==
    LET target == ExportsTarget(pkg, subpath, conditions)
    IN  IF IsSome(target)
        THEN Some(Join(pkg_dir, trim_start_matches(Unwrap(target), L_dot_slash)))
        ELSE target

----------------------------------------------------------------------------
(* resolve_module_native *)

DefaultResolveOptions ==
    [conditions |-> <<L_import, L_default>>,
     extensions |-> <<L_ts, L_tsx, L_js, L_mjs, L_cjs>>,
     prefer_cjs |-> FALSE]

M_pkg_open == <<"P", "a", "c", "k", "a", "g", "e", " ", "'">>
M_not_found == <<"'", " ", "n", "o", "t", " ", "f", "o", "u", "n", "d", " ", "f", "r", "o", "m", " ">>
M_quote == <<"\"">>

\* format!("Package '{}' not found from {:?}", pkg_name, importer_dir)
NotFoundWarning(pkg_name, importer_dir) ==
    M_pkg_open \o pkg_name \o M_not_found \o M_quote \o importer_dir \o M_quote

\* the condition list with prefer_cjs merged in
MergedConditions(o) ==
    IF o.prefer_cjs /\ ~(\E i \in 1..Len(o.conditions) : o.conditions[i] = L_require)
    THEN <<L_require>> \o o.conditions
    ELSE o.conditions

\* a located package whose unprobeable exports target falls back to the
\* manifest fields
ResolveLocatedWithFallback(f, dir, pkg_json, export_target, extensions) ==
    IF IsSome(export_target)
       /\ IsSome(resolve_path_like(f, dir, Unwrap(export_target), extensions))
    THEN resolve_path_like(f, dir, Unwrap(export_target), extensions)
    ELSE resolve_pkg_main(f, dir, pkg_json, extensions)

\* a located package: the exports target is probed if there is one,
\* resolve_pkg_main is called otherwise
ResolveLocated(f, dir, pkg_json, export_target, extensions) ==
    IF IsSome(export_target)
    THEN resolve_path_like(f, dir, Unwrap(export_target), extensions)
    ELSE resolve_pkg_main(f, dir, pkg_json, extensions)

\* a bare-package arm that, without an exports target, probes the subpath
\* under the package directory before the manifest fields
ResolveBareWithSubpath(f, importer_dir, project_root, spec, conditions, extensions) ==
    LET split == split_package_specifier(spec)
        pkg_name == split[1]
        subpath == split[2]
        pkg_dir == resolve_package_dir(f, importer_dir, project_root, pkg_name)
        dir == Unwrap(pkg_dir)
        pkg_json == read_package_json(f, dir)
        export_target == IF IsSome(pkg_json)
                         THEN resolve_exports(Unwrap(pkg_json), subpath, dir, conditions)
                         ELSE None
    IN  IF ~IsSome(pkg_dir)
        THEN [panic |-> FALSE, resolved |-> None, matched_export |-> None,
              package_json |-> None,
              warnings |-> <<NotFoundWarning(pkg_name, importer_dir)>>]
        ELSE IF IsPanic(export_target)
        THEN [panic |-> TRUE, resolved |-> None, matched_export |-> None,
              package_json |-> None, warnings |-> <<>>]
        ELSE [panic |-> FALSE,
              resolved |-> IF ~IsSome(export_target) /\ subpath # L_dot
                           THEN resolve_path_like(f, dir, subpath, extensions)
                           ELSE ResolveLocated(f, dir, pkg_json, export_target,
                                               extensions),
              matched_export |-> export_target,
              package_json |-> Some(Join(dir, L_package_json)),
              warnings |-> <<>>]

\* the bare-package arm: the locals resolved, matched_export,
\* package_json_path and warnings, and whether the call aborted
ResolveBare(f, importer_dir, project_root, spec, conditions, extensions) ==
    LET split == split_package_specifier(spec)
        pkg_name == split[1]
        subpath == split[2]
        pkg_dir == resolve_package_dir(f, importer_dir, project_root, pkg_name)
        dir == Unwrap(pkg_dir)
        pkg_json == read_package_json(f, dir)
        export_target == IF IsSome(pkg_json)
                         THEN resolve_exports(Unwrap(pkg_json), subpath, dir, conditions)
                         ELSE None
    IN  IF ~IsSome(pkg_dir)
        THEN [panic |-> FALSE, resolved |-> None, matched_export |-> None,
              package_json |-> None,
              warnings |-> <<NotFoundWarning(pkg_name, importer_dir)>>]
        ELSE IF IsPanic(export_target)
        THEN [panic |-> TRUE, resolved |-> None, matched_export |-> None,
              package_json |-> None, warnings |-> <<>>]
        ELSE [panic |-> FALSE,
              resolved |-> ResolveLocated(f, dir, pkg_json, export_target,
                                          extensions),
              matched_export |-> export_target,
              package_json |-> Some(Join(dir, L_package_json)),
              warnings |-> <<>>]

Failure(kind) ==
    [outcome |-> kind, resolved_path |-> None, format |-> "Unknown",
     matched_export |-> None, package_json |-> None, warnings |-> <<>>]

\* the call after its two argument checks: classification of the
\* specifier, resolution, format detection and the response
ResolveChecked(f, r, options) ==
    LET o == IF IsSome(options) THEN Unwrap(options) ELSE DefaultResolveOptions
        conditions == MergedConditions(o)
        importer_dir == Unwrap(Parent(r.importer))
        normalized_specifier == replace(r.specifier, "\\", L_slash)
        path_like == is_relative(normalized_specifier)
                     \/ starts_with(normalized_specifier, L_slash)
        bare == ResolveBare(f, importer_dir, r.project_root,
                            normalized_specifier, conditions, o.extensions)
        resolved == IF path_like
                    THEN resolve_path_like(f, importer_dir, normalized_specifier,
                                           o.extensions)
                    ELSE bare.resolved
    IN  IF ~path_like /\ bare.panic THEN Failure("panic")
        ELSE [outcome |-> "ok",
              resolved_path |-> resolved,
              format |-> IF IsSome(resolved) THEN detect_format(Unwrap(resolved))
                         ELSE "Unknown",
              matched_export |-> IF path_like THEN None ELSE bare.matched_export,
              package_json |-> IF path_like THEN None ELSE bare.package_json,
              warnings |-> IF path_like THEN <<>> ELSE bare.warnings]

\* a resolve_module_native that looks at the importer before the specifier
resolve_module_native_importer_first(f, r, options) ==
    IF ~IsSome(Parent(r.importer)) THEN Failure("MissingImporter")
    ELSE IF trim(r.specifier) = <<>> THEN Failure("EmptySpecifier")
    ELSE ResolveChecked(f, r, options)

\* r is a ResolveRequest, options an Option<ResolveOptions>.  The outcome
\* is "ok" (a ResolveResponse), the error returned, or "panic".
resolve_module_native(f, r, options) ==
    IF trim(r.specifier) = <<>> THEN Failure("EmptySpecifier")
    ELSE IF ~IsSome(Parent(r.importer)) THEN Failure("MissingImporter")
    ELSE ResolveChecked(f, r, options)

\* The locals of a resolve call that the response does not carry: the
\* merged conditions and, for a bare specifier whose package was located,
\* the package directory, the manifest and the target selected from the
\* exports map before the directory join.
NoLocals ==
    [bare |-> FALSE, conditions |-> <<>>, pkg_name |-> <<>>, subpath |-> <<>>,
     pkg_dir |-> None, pkg_json |-> None, target |-> None]

ResolveLocals(f, r, options) ==
    LET o == IF IsSome(options) THEN Unwrap(options) ELSE DefaultResolveOptions
        conditions == MergedConditions(o)
        importer_dir == Parent(r.importer)
        normalized_specifier == replace(r.specifier, "\\", L_slash)
        path_like == is_relative(normalized_specifier)
                     \/ starts_with(normalized_specifier, L_slash)
        split == split_package_specifier(normalized_specifier)
        pkg_dir == resolve_package_dir(f, Unwrap(importer_dir), r.project_root, split[1])
        pkg_json == IF IsSome(pkg_dir) THEN read_package_json(f, Unwrap(pkg_dir))
                    ELSE None
    IN  IF trim(r.specifier) = <<>> \/ ~IsSome(importer_dir) \/ path_like
        THEN [NoLocals EXCEPT !.conditions = conditions]
        ELSE [bare |-> TRUE, conditions |-> conditions,
              pkg_name |-> split[1], subpath |-> split[2],
              pkg_dir |-> pkg_dir, pkg_json |-> pkg_json,
              target |-> IF IsSome(pkg_json)
                         THEN ExportsTarget(Unwrap(pkg_json), split[2], conditions)
                         ELSE None]

----------------------------------------------------------------------------
(* Inputs of the resolve calls: a project at /w with the package            *)
(* /w/node_modules/pkg, whose manifest and files vary.                      *)

W_cwd == <<"/", "w">>
W_src == <<"/", "w", "/", "s", "r", "c">>
W_importer == <<"/", "w", "/", "s", "r", "c", "/", "i", "n", "d", "e", "x", ".", "t", "s">>
W_importer_rel == <<"s", "r", "c", "/", "i", "n", "d", "e", "x", ".", "t", "s">>
W_importer_bare == <<"i", "n", "d", "e", "x", ".", "t", "s">>
W_rel_ts == <<"/", "w", "/", "s", "r", "c", "/", "r", "e", "l", ".", "t", "s">>
W_pkg_dir == <<"/", "w", "/", "n", "o", "d", "e", "_", "m", "o", "d", "u", "l", "e", "s", "/", "p", "k", "g">>
W_scoped_index == <<"/", "w", "/", "n", "o", "d", "e", "_", "m", "o", "d", "u", "l", "e", "s", "/", "@", "s", "/", "p", "k", "g", "/", "i", "n", "d", "e", "x", ".", "j", "s">>
T_esm == <<".", "/", "e", "s", "m", ".", "j", "s">>
T_cjs == <<".", "/", "c", "j", "s", ".", "j", "s">>
T_feature == <<".", "/", "s", "r", "c", "/", "f", "e", "a", "t", "u", "r", "e", "/", "*", ".", "j", "s">>
F_esm == <<"e", "s", "m", ".", "j", "s">>
F_cjs == <<"c", "j", "s", ".", "j", "s">>
F_feature_x == <<"s", "r", "c", "/", "f", "e", "a", "t", "u", "r", "e", "/", "x", ".", "j", "s">>
F_index_js == <<"i", "n", "d", "e", "x", ".", "j", "s">>
F_types_index == <<"t", "y", "p", "e", "s", "/", "i", "n", "d", "e", "x", ".", "d", ".", "t", "s">>
K_root == <<".">>
K_star == <<".", "/", "*">>
K_overlap == <<".", "/", "a", "*", "a">>
K_feature_star == <<".", "/", "f", "e", "a", "t", "u", "r", "e", "/", "*">>
K_feature_x == <<".", "/", "f", "e", "a", "t", "u", "r", "e", "/", "x">>
S_empty == <<>>
S_blank == <<" ">>
S_blanks == <<" ", " ">>
S_pkg == <<"p", "k", "g">>
S_pkg_feature_x == <<"p", "k", "g", "/", "f", "e", "a", "t", "u", "r", "e", "/", "x">>
S_pkg_a == <<"p", "k", "g", "/", "a">>
S_pkg_backslash == <<"p", "k", "g", "\\", "f", "e", "a", "t", "u", "r", "e", "\\", "x">>
S_rel == <<".", "/", "r", "e", "l">>
S_up == <<".", ".", "/", "s", "r", "c", "/", "r", "e", "l">>
S_abs == <<"/", "w", "/", "s", "r", "c", "/", "r", "e", "l", ".", "t", "s">>
S_missing == <<".", "/", "m", "i", "s", "s", "i", "n", "g">>
S_nopkg == <<"n", "o", "p", "k", "g">>
S_scoped == <<"@", "s", "/", "p", "k", "g">>
S_scoped_sub == <<"@", "s", "/", "p", "k", "g", "/", "s", "u", "b">>

\* the most keys an exports object of the inputs has
MaxExportKeys == 2

\* the canonical form of an absolute path
FileAt(s) == Normalize(Components(s).parts, <<>>)

DirsOf(files) == UNION {{SubSeq(x, 1, k) : k \in 0..(Len(x) - 1)} : x \in files}

Range(s) == {s[i] : i \in 1..Len(s)}

\* the JSON object with the keys DOMAIN g, iterated in the order of `order`
\* (serde_json's map iterates in ascending key order)
ObjOf(order, g) ==
    LET ks == SelectSeq(order, LAMBDA k : k \in DOMAIN g)
    IN  JObj([i \in 1..Len(ks) |-> <<ks[i], g[ks[i]]>>])

ObjectsOver(order, vals, maxKeys) ==
    {ObjOf(order, g) :
        g \in UNION {[K -> vals] :
                        K \in {J \in SUBSET Range(order) :
                                  J # {} /\ Cardinality(J) <= maxKeys}}}

ConditionKeys == <<L_default, L_import, L_require>>

SubpathKeys == <<K_root, K_star, K_overlap, K_feature_star, K_feature_x>>

\* the condition map of the crate's test resolves_exports_with_conditions
TestConditionMap ==
    JObj(<<<<L_default, JStr(T_esm)>>, <<L_import, JStr(T_esm)>>,
           <<L_require, JStr(T_cjs)>>>>)

ConditionMaps == ObjectsOver(ConditionKeys, {JStr(T_esm), JStr(T_cjs), JNull}, 3)

SubpathMaps ==
    ObjectsOver(SubpathKeys, {JStr(T_esm), JStr(T_feature), JNull, TestConditionMap},
                MaxExportKeys)

OtherExports ==
    {JStr(T_esm), JNull, JArr(<<JNull, JStr(T_cjs)>>), JArr(<<>>),
     JObj(<<<<L_default, JStr(T_cjs)>>,
            <<L_import, JObj(<<<<L_types, JStr(T_esm)>>>>)>>>>),
     JObj(<<<<L_import, JArr(<<JNull, TestConditionMap>>)>>>>)}

ExportsValues == ConditionMaps \cup SubpathMaps \cup OtherExports

\* manifests without an exports field, and one that is not an object
LegacyManifests ==
    {JObj(<<>>), JArr(<<>>),
     JObj(<<<<L_main, JStr(T_cjs)>>>>),
     JObj(<<<<L_module, JStr(T_esm)>>, <<L_main, JStr(T_cjs)>>>>),
     JObj(<<<<L_types, JStr(F_types_index)>>, <<L_main, JStr(T_cjs)>>>>),
     JObj(<<<<L_exports, JObj(<<<<K_feature_x, JStr(T_esm)>>>>)>>,
            <<L_main, JStr(T_cjs)>>>>)}

\* a manifest file: absent, present but not JSON, or holding a value
Manifests ==
    {<<"absent", <<>>>>, <<"garbage", <<>>>>}
    \cup {<<"json", m>> : m \in LegacyManifests}
    \cup {<<"json", JObj(<<<<L_exports, e>>>>)>> : e \in ExportsValues}

TestManifest == <<"json", JObj(<<<<L_exports, JObj(<<<<K_root, TestConditionMap>>>>)>>>>)>>

AllPkgFiles == {F_esm, F_cjs, F_feature_x, F_index_js, F_types_index}

\* the files of the crate's test resolves_exports_with_conditions
TestPkgFiles == {F_esm, F_cjs}

PkgFileSets == {AllPkgFiles, TestPkgFiles, {}}

ResolveWorld(manifest, pkgfiles) ==
    LET files == {FileAt(W_importer), FileAt(W_rel_ts), FileAt(W_scoped_index)}
                 \cup {FileAt(Join(W_pkg_dir, x)) : x \in pkgfiles}
                 \cup (IF manifest[1] = "absent" THEN {}
                       ELSE {FileAt(Join(W_pkg_dir, L_package_json))})
    IN  [cwd |-> FileAt(W_cwd),
         files |-> files,
         dirs |-> DirsOf(files) \cup {FileAt(W_pkg_dir)},
         json |-> IF manifest[1] = "json"
                  THEN FileAt(Join(W_pkg_dir, L_package_json)) :> manifest[2]
                  ELSE <<>>,
         order |-> "asc"]

Options(conds, exts, prefer) ==
    Some([conditions |-> conds, extensions |-> exts, prefer_cjs |-> prefer])

\* options of the calls on varied manifests
PackageOptions ==
    {Options(c, DefaultResolveOptions.extensions, p) :
        c \in {<<L_import, L_default>>, <<L_require>>}, p \in BOOLEAN}

\* options of the calls on varied requests
RequestOptions ==
    {None}
    \cup {Options(c, e, p) :
            c \in {<<L_import, L_default>>, <<L_require, L_import>>, <<>>},
            e \in {DefaultResolveOptions.extensions, <<L_js>>},
            p \in BOOLEAN}

PackageSpecifiers == {S_pkg, S_pkg_feature_x, S_pkg_a}

RequestSpecifiers ==
    {S_empty, S_blank, S_blanks, S_pkg, S_pkg_backslash, S_rel, S_up, S_abs,
     S_missing, S_nopkg, S_scoped, S_scoped_sub}

Importers == {W_importer, W_importer_rel, W_importer_bare, L_slash, <<>>}

ProjectRoots == {None, Some(W_cwd), Some(W_src)}

NoResponse == Failure("none")

\* Calls on the test's importer with every manifest, and calls on the
\* test's package with every request.
InitResolve ==
    /\ pc = "call"
    /\ op = "resolve"
    /\ resp = NoResponse
    /\ aux = NoLocals
    /\ \/ /\ fs \in {ResolveWorld(m, s) : m \in Manifests, s \in PkgFileSets}
          /\ req \in {[specifier |-> s, importer |-> W_importer,
                       project_root |-> Some(W_cwd)] : s \in PackageSpecifiers}
          /\ opts \in PackageOptions
       \/ /\ fs = ResolveWorld(TestManifest, AllPkgFiles)
          /\ req \in [specifier : RequestSpecifiers, importer : Importers,
                      project_root : ProjectRoots]
          /\ opts \in RequestOptions

\* one call of resolve_module_native
Resolve ==
    /\ pc = "call"
    /\ op = "resolve"
    /\ resp' = resolve_module_native(fs, req, opts)
    /\ aux' = ResolveLocals(fs, req, opts)
    /\ pc' = "done"
    /\ UNCHANGED <<op, fs, req, opts>>

NextResolve == Resolve

SpecResolve == InitResolve /\ [][NextResolve]_vars

----------------------------------------------------------------------------
(* Typings discovery *)

MAX_DEPTH == 2

MAX_FILES_PER_PACKAGE == 50

TypesConditions == <<L_types, L_typings, L_default>>

IsDeclarationName(s) ==
    ends_with(s, L_d_ts) \/ ends_with(s, L_d_mts) \/ ends_with(s, L_d_cts)

\* a selector that accepts every string: the general select_export_target
select_export_target_unchecked(value, conditions) ==
    select_export_target(value, conditions)

RECURSIVE select_export_target_with_conditions(_, _)
RECURSIVE SelectFirstTypesEntry(_, _, _)
RECURSIVE SelectFirstTypesCondition(_, _, _)

SelectFirstTypesEntry(arr, conditions, i) ==
    IF i > Len(arr) THEN None
    ELSE LET target == select_export_target_with_conditions(arr[i], conditions)
         IN  IF IsSome(target) THEN target
             ELSE SelectFirstTypesEntry(arr, conditions, i + 1)

SelectFirstTypesCondition(map, conditions, i) ==
    IF i > Len(conditions) THEN None
    ELSE LET val == get(map, conditions[i])
             target == IF IsSome(val)
                       THEN select_export_target_with_conditions(Unwrap(val), conditions)
                       ELSE None
         IN  IF IsSome(target) THEN target
             ELSE SelectFirstTypesCondition(map, conditions, i + 1)

select_export_target_with_conditions(value, conditions) ==
    IF value[1] = "str"
    THEN (IF IsDeclarationName(value[2]) THEN Some(value[2]) ELSE None)
    ELSE IF value[1] = "arr" THEN SelectFirstTypesEntry(value[2], conditions, 1)
    ELSE IF value[1] = "obj"
         THEN LET types == get(value, L_types)
                  byTypes == IF IsSome(types)
                             THEN select_export_target_with_conditions(Unwrap(types),
                                                                       conditions)
                             ELSE None
                  hit == SelectFirstTypesCondition(value, conditions, 1)
                  default == get(value, L_default)
              IN  IF IsSome(byTypes) THEN byTypes
                  ELSE IF IsSome(types) /\ Unwrap(types)[1] = "str"
                       THEN Some(Unwrap(types)[2])
                  ELSE IF IsSome(hit) THEN hit
                  ELSE IF IsSome(default)
                       THEN select_export_target_with_conditions(Unwrap(default),
                                                                 conditions)
                  ELSE None
    ELSE None

resolve_exports_types(exports, subpath, pkg_dir) ==
    LET key == L_dot_slash \o trim_start_matches(subpath, L_dot_slash)
        byKey == get(exports, key)
        byRoot == get(exports, L_dot)
        target ==
            IF subpath = L_dot
            THEN select_export_target_with_conditions(exports, TypesConditions)
            ELSE IF exports[1] = "obj"
                 THEN IF IsSome(byKey)
                      THEN select_export_target_with_conditions(Unwrap(byKey),
                                                                TypesConditions)
                      ELSE IF IsSome(byRoot)
                           THEN select_export_target_with_conditions(Unwrap(byRoot),
                                                                     TypesConditions)
                           ELSE None
            ELSE None
    IN  IF IsSome(target)
        THEN Some(Join(pkg_dir, trim_start_matches(Unwrap(target), L_dot_slash)))
        ELSE None

\* the strings of a set in ascending order
RECURSIVE Ascending(_)
Ascending(S) ==
    IF S = {} THEN <<>>
    ELSE LET m == CHOOSE x \in S : \A y \in S : StrLeq(x, y)
         IN  <<m>> \o Ascending(S \ {m})

Reverse(s) == [i \in 1..Len(s) |-> s[Len(s) + 1 - i]]

\* fs::read_dir(dir): the paths of the directory's entries, in the order the
\* OS lists them
read_dir(f, dir) ==
    LET d == Canon(f, dir)
        names == {x[Len(d) + 1] :
                    x \in {y \in f.files \cup f.dirs :
                              Len(y) = Len(d) + 1 /\ SubSeq(y, 1, Len(d)) = d}}
        listed == IF f.order = "asc" THEN Ascending(names)
                  ELSE Reverse(Ascending(names))
    IN  [i \in 1..Len(listed) |-> Join(dir, listed[i])]

\* the depth a subdirectory is scanned at
NextDepthSame(depth) == depth

NextDepth(depth) == depth + 1

\* st holds the call's files and visited, and for each sibling-discovery
\* pass (named by the directory it started from) the directories it read
\* and the files it pushed
RECURSIVE discover_dts_in_dir_impl(_, _, _, _, _)
RECURSIVE ScanEntries(_, _, _, _, _, _)

ScanEntries(f, start, entries, i, st, depth) ==
    IF i > Len(entries) \/ Len(st.files) >= MAX_FILES_PER_PACKAGE THEN st
    ELSE LET path == entries[i]
             name == IF IsSome(file_name(path)) THEN Unwrap(file_name(path)) ELSE <<>>
             next ==
                IF is_file(f, path)
                THEN IF IsDeclarationName(name)
                     THEN [st EXCEPT !.files = Append(@, path),
                                     !.pushed = @ \cup {<<start, path>>}]
                     ELSE st
                ELSE IF is_dir(f, path) /\ depth < MAX_DEPTH
                          /\ name # L_node_modules /\ ~starts_with(name, L_dot)
                     THEN discover_dts_in_dir_impl(f, start, path, st, NextDepth(depth))
                     ELSE st
         IN  ScanEntries(f, start, entries, i + 1, next, depth)

discover_dts_in_dir_impl(f, start, dir, st, depth) ==
    IF depth > MAX_DEPTH \/ Len(st.files) >= MAX_FILES_PER_PACKAGE THEN st
    ELSE IF dir \in st.visited THEN st
    ELSE IF is_dir(f, dir)
         THEN ScanEntries(f, start, read_dir(f, dir), 1,
                          [st EXCEPT !.visited = @ \cup {dir},
                                     !.reads = @ \cup {<<start, dir>>}],
                          depth)
         ELSE [st EXCEPT !.visited = @ \cup {dir}]

discover_dts_in_dir(f, dir, st) == discover_dts_in_dir_impl(f, dir, dir, st, 0)

\* files.push(path), then the sibling-discovery pass over dir
PushAndDiscover(f, st, path, dir) ==
    discover_dts_in_dir(f, dir, [st EXCEPT !.files = Append(@, path)])

\* Vec::sort
sort(files) == SortSeq(files, StrLess)

\* a dedup that keeps every element
dedup_none(files) == files

\* Vec::dedup: consecutive equal elements collapse to one
RECURSIVE dedup(_)
dedup(files) ==
    IF Len(files) <= 1 THEN files
    ELSE IF files[1] = files[2] THEN dedup(Tail(files))
    ELSE <<files[1]>> \o dedup(Tail(files))

FallbackPaths ==
    <<L_index_d_ts, L_index_d_mts, L_dist_index_d_ts, L_lib_index_d_ts,
      L_types_index_d_ts, L_build_index_d_ts>>

RECURSIVE DiscoverFallbacks(_, _, _, _)
DiscoverFallbacks(f, pkg_dir, st, i) ==
    IF i > Len(FallbackPaths) THEN st
    ELSE LET candidate_path == Join(pkg_dir, FallbackPaths[i])
         IN  DiscoverFallbacks(f, pkg_dir,
                IF is_file(f, candidate_path)
                THEN PushAndDiscover(f, st, candidate_path,
                                     Unwrap(Parent(candidate_path)))
                ELSE st,
                i + 1)

\* "@types/" and the package name without leading '@', '/' replaced by "__"
TypesPackage(package_name) ==
    L_at_types_slash
        \o replace(trim_start_matches(package_name, <<"@">>), "/", L_underscores)

\* source 1: the "types" target of the exports field
DiscoverExportsTypes(f, st, types_path) ==
    IF IsSome(types_path) /\ is_file(f, Unwrap(types_path))
    THEN PushAndDiscover(f, st, Unwrap(types_path), Unwrap(Parent(Unwrap(types_path))))
    ELSE st

\* source 2: the top-level "types" / "typings" field
DiscoverTypesField(f, st, pkg_dir, types) ==
    IF IsSome(types) /\ is_file(f, Join(pkg_dir, Unwrap(types)))
    THEN PushAndDiscover(f, st, Join(pkg_dir, Unwrap(types)),
                         Unwrap(Parent(Join(pkg_dir, Unwrap(types)))))
    ELSE st

\* sources 1 and 2, which need the manifest to parse
DiscoverManifest(f, st, pkg_dir, pkg_json) ==
    IF IsSome(pkg_json)
    THEN DiscoverTypesField(f,
            IF IsSome(get(Unwrap(pkg_json), L_exports))
            THEN DiscoverExportsTypes(f, st,
                    resolve_exports_types(Unwrap(get(Unwrap(pkg_json), L_exports)),
                                          L_dot, pkg_dir))
            ELSE st,
            pkg_dir,
            and_then_as_str(or_else(get(Unwrap(pkg_json), L_types),
                                    get(Unwrap(pkg_json), L_typings))))
    ELSE st

\* sources 1 to 3: the package's own directory
DiscoverPackage(f, st, pkg_dir) ==
    IF IsSome(pkg_dir)
    THEN DiscoverFallbacks(f, Unwrap(pkg_dir),
            DiscoverManifest(f,
                [st EXCEPT !.pkg_json_path =
                               Some(Join(Unwrap(pkg_dir), L_package_json))],
                Unwrap(pkg_dir), read_package_json(f, Unwrap(pkg_dir))),
            1)
    ELSE st

\* source 4: the @types package
DiscoverTypesPackage(f, st, types_dir) ==
    IF IsSome(types_dir) /\ is_file(f, Join(Unwrap(types_dir), L_index_d_ts))
    THEN discover_dts_in_dir(f, Unwrap(types_dir),
            [st EXCEPT !.files = Append(@, Join(Unwrap(types_dir), L_index_d_ts)),
                       !.pkg_json_path =
                           IF IsSome(@) THEN @
                           ELSE Some(Join(Unwrap(types_dir), L_package_json))])
    ELSE st

NoTypings == [files |-> <<>>, visited |-> {}, reads |-> {}, pushed |-> {},
              pkg_json_path |-> None]

\* the state of a discover_typings_native call before files.sort(): the
\* files pushed, the visited set, the manifest path, and what each
\* sibling-discovery pass read and pushed
DiscoverRaw(f, package_name, project_root) ==
    DiscoverTypesPackage(f,
        DiscoverPackage(f, NoTypings,
            resolve_package_dir(f, project_root, Some(project_root), package_name)),
        resolve_package_dir(f, project_root, Some(project_root),
                            TypesPackage(package_name)))

TypingsResponse(package_name, raw) ==
    [package_name |-> package_name,
     files |-> dedup(sort(raw.files)),
     package_json |-> raw.pkg_json_path]

discover_typings_native(f, package_name, project_root) ==
    TypingsResponse(package_name, DiscoverRaw(f, package_name, project_root))

----------------------------------------------------------------------------
(* Inputs of the typings calls: a project at /w with the package            *)
(* /w/node_modules/foo and the typings package /w/node_modules/@types/foo,  *)
(* whose manifest and directory tree vary.                                  *)

Y_foo == <<"f", "o", "o">>
Y_bar == <<"b", "a", "r">>
Y_scoped == <<"@", "s", "/", "f", "o", "o">>
Y_pkg_dir == <<"/", "w", "/", "n", "o", "d", "e", "_", "m", "o", "d", "u", "l", "e", "s", "/", "f", "o", "o">>
Y_at_types_dir == <<"/", "w", "/", "n", "o", "d", "e", "_", "m", "o", "d", "u", "l", "e", "s", "/", "@", "t", "y", "p", "e", "s", "/", "f", "o", "o">>
Y_at_types_scoped_index == <<"/", "w", "/", "n", "o", "d", "e", "_", "m", "o", "d", "u", "l", "e", "s", "/", "@", "t", "y", "p", "e", "s", "/", "s", "_", "_", "f", "o", "o", "/", "i", "n", "d", "e", "x", ".", "d", ".", "t", "s">>
T_types_index == <<".", "/", "t", "y", "p", "e", "s", "/", "i", "n", "d", "e", "x", ".", "d", ".", "t", "s">>
T_types_a_x == <<".", "/", "t", "y", "p", "e", "s", "/", "a", "/", "x", ".", "d", ".", "t", "s">>
T_types_a_b_y == <<".", "/", "t", "y", "p", "e", "s", "/", "a", "/", "b", "/", "y", ".", "d", ".", "m", "t", "s">>
T_index_js == <<".", "/", "i", "n", "d", "e", "x", ".", "j", "s">>
F_types_a_x == <<"t", "y", "p", "e", "s", "/", "a", "/", "x", ".", "d", ".", "t", "s">>
F_types_a_b_y == <<"t", "y", "p", "e", "s", "/", "a", "/", "b", "/", "y", ".", "d", ".", "m", "t", "s">>
F_types_a_b_c_z == <<"t", "y", "p", "e", "s", "/", "a", "/", "b", "/", "c", "/", "z", ".", "d", ".", "c", "t", "s">>
F_types_readme == <<"t", "y", "p", "e", "s", "/", "r", "e", "a", "d", "m", "e", ".", "m", "d">>
F_types_hidden == <<"t", "y", "p", "e", "s", "/", ".", "h", "i", "d", "/", "h", ".", "d", ".", "t", "s">>
F_types_nested_dep == <<"t", "y", "p", "e", "s", "/", "n", "o", "d", "e", "_", "m", "o", "d", "u", "l", "e", "s", "/", "d", "e", "p", "/", "d", ".", "d", ".", "t", "s">>
F_dep_index == <<"n", "o", "d", "e", "_", "m", "o", "d", "u", "l", "e", "s", "/", "d", "e", "p", "/", "i", "n", "d", "e", "x", ".", "d", ".", "t", "s">>
F_cache == <<".", "c", "a", "c", "h", "e", "/", "c", ".", "d", ".", "t", "s">>
F_extra == <<"e", "x", "t", "r", "a", ".", "d", ".", "t", "s">>
F_sub_s == <<"s", "u", "b", "/", "s", ".", "d", ".", "t", "s">>
F_types == <<"t", "y", "p", "e", "s">>

\* the most declaration files the inputs put into one directory, besides
\* its index.d.ts
MaxDirFiles == 51

Digits == <<"0", "1", "2", "3", "4", "5", "6", "7", "8", "9">>

\* the name of the k-th numbered declaration file
Numbered(k) == <<"f", Digits[(k \div 10) + 1], Digits[(k % 10) + 1]>> \o L_d_ts

NumberedCounts ==
    {0, 2, MAX_FILES_PER_PACKAGE - 1, MAX_FILES_PER_PACKAGE, MaxDirFiles}

TypingsManifests ==
    {<<"absent", <<>>>>, <<"garbage", <<>>>>}
    \cup {<<"json", m>> : m \in
            {JObj(<<>>),
             JObj(<<<<L_types, JStr(F_types_index)>>>>),
             JObj(<<<<L_typings, JStr(T_types_index)>>>>),
             JObj(<<<<L_types, JStr(F_types_a_x)>>>>),
             JObj(<<<<L_exports, JObj(<<<<L_types, JStr(T_types_index)>>>>)>>>>),
             JObj(<<<<L_exports, JObj(<<<<L_types, JStr(T_types_index)>>>>)>>,
                    <<L_types, JStr(F_types_a_x)>>>>),
             JObj(<<<<L_exports,
                      JObj(<<<<K_root,
                               JObj(<<<<L_types, JStr(T_types_index)>>>>)>>>>)>>>>),
             JObj(<<<<L_exports, JStr(T_index_js)>>>>),
             JObj(<<<<L_exports,
                      JObj(<<<<L_default, JStr(T_types_a_b_y)>>,
                             <<L_import, JStr(T_index_js)>>>>)>>>>)}}

\* the tree of the package, apart from its manifest and its index files
PackageTree ==
    {F_types_a_x, F_types_a_b_y, F_types_a_b_c_z, F_types_readme, F_types_hidden,
     F_types_nested_dep, F_dep_index, F_cache}

TypingsWorld(n, manifest, typesIndex, rootIndex, atTypes, order) ==
    LET pkgfiles == PackageTree
                    \cup {Join(F_types, Numbered(k)) : k \in 0..(n - 1)}
                    \cup (IF typesIndex THEN {F_types_index} ELSE {})
                    \cup (IF rootIndex THEN {L_index_d_ts} ELSE {})
                    \cup (IF manifest[1] = "absent" THEN {} ELSE {L_package_json})
        files == {FileAt(Join(Y_pkg_dir, x)) : x \in pkgfiles}
                 \cup {FileAt(Y_at_types_scoped_index)}
                 \cup (IF atTypes
                       THEN {FileAt(Join(Y_at_types_dir, x)) :
                                x \in {L_index_d_ts, F_extra, F_sub_s}}
                       ELSE {FileAt(Join(Y_at_types_dir, F_extra))})
    IN  [cwd |-> FileAt(W_cwd),
         files |-> files,
         dirs |-> DirsOf(files),
         json |-> IF manifest[1] = "json"
                  THEN FileAt(Join(Y_pkg_dir, L_package_json)) :> manifest[2]
                  ELSE <<>>,
         order |-> order]

\* a package that holds its manifest {"types": types}, one declaration file
\* and a readme
SingleFileWorld(types, file, atTypes, order) ==
    LET files == {FileAt(Join(Y_pkg_dir, x)) : x \in {L_package_json, file, F_types_readme}}
                 \cup (IF atTypes
                       THEN {FileAt(Join(Y_at_types_dir, L_index_d_ts))}
                       ELSE {})
    IN  [cwd |-> FileAt(W_cwd),
         files |-> files,
         dirs |-> DirsOf(files),
         json |-> FileAt(Join(Y_pkg_dir, L_package_json))
                    :> JObj(<<<<L_types, JStr(types)>>>>),
         order |-> order]

\* Calls for the package foo on every tree, calls for a scoped and a
\* missing package, and calls for a package with one declaration file.
InitTypings ==
    /\ pc = "call"
    /\ op = "typings"
    /\ opts = None
    /\ resp = NoResponse
    /\ aux = NoTypings
    /\ \/ /\ fs \in {TypingsWorld(n, m, t, r, a, o) :
                        n \in NumberedCounts, m \in TypingsManifests,
                        t \in BOOLEAN, r \in BOOLEAN, a \in BOOLEAN,
                        o \in {"asc", "desc"}}
          /\ req = [package_name |-> Y_foo, project_root |-> W_cwd]
       \/ /\ fs \in {TypingsWorld(2, <<"absent", <<>>>>, TRUE, TRUE, a, o) :
                        a \in BOOLEAN, o \in {"asc", "desc"}}
          /\ req \in {[package_name |-> p, project_root |-> W_cwd] :
                         p \in {Y_bar, Y_scoped}}
       \/ /\ fs \in {SingleFileWorld(t, x, a, o) :
                        t \in {F_types_index, T_types_index, L_index_d_ts,
                               L_dot_slash \o L_index_d_ts},
                        x \in {F_types_index, L_index_d_ts},
                        a \in BOOLEAN, o \in {"asc", "desc"}}
          /\ req = [package_name |-> Y_foo, project_root |-> W_cwd]

\* one call of discover_typings_native
DiscoverTypings ==
    /\ pc = "call"
    /\ op = "typings"
    /\ resp' = discover_typings_native(fs, req.package_name, req.project_root)
    /\ aux' = DiscoverRaw(fs, req.package_name, req.project_root)
    /\ pc' = "done"
    /\ UNCHANGED <<op, fs, req, opts>>

NextTypings == DiscoverTypings

SpecTypings == InitTypings /\ [][NextTypings]_vars

----------------------------------------------------------------------------
(* resolve_package_dir, one loop iteration per step: aux.current is the     *)
(* loop variable and aux.probed the directories whose node_modules were     *)
(* tested with exists().                                                    *)

Q_other_lib == <<"/", "o", "t", "h", "e", "r", "/", "l", "i", "b">>
Q_other == <<"/", "o", "t", "h", "e", "r">>
Q_src == <<"s", "r", "c">>
Q_up == <<".", ".", "/", "u", "p">>
Q_src_slash == <<"/", "w", "/", "s", "r", "c", "/">>
Q_dot_src == <<"/", "w", "/", ".", "/", "s", "r", "c">>
Q_w_slash == <<"/", "w", "/">>
Q_deeper == <<"/", "w", "/", "s", "r", "c", "/", "d", "e", "e", "p", "e", "r">>
Q_top == <<"t", "o", "p">>
Q_top_index == <<"/", "n", "o", "d", "e", "_", "m", "o", "d", "u", "l", "e", "s", "/", "t", "o", "p", "/", "i", "n", "d", "e", "x", ".", "j", "s">>

\* the project of the resolve calls, and a package installed in /node_modules
LocateWorld ==
    LET w == ResolveWorld(TestManifest, AllPkgFiles)
    IN  [w EXCEPT !.files = @ \cup {FileAt(Q_top_index)},
                  !.dirs = @ \cup DirsOf({FileAt(Q_top_index)})]

LocateStarts ==
    {W_src, W_cwd, L_slash, Q_other_lib, Q_src, <<>>, L_dot, Q_up, Q_src_slash,
     Q_dot_src, Q_deeper}

LocateRoots ==
    {None, Some(W_cwd), Some(W_src), Some(Q_w_slash), Some(Q_other), Some(Q_src),
     Some(L_slash)}

LocatePackages == {S_pkg, S_nopkg, S_scoped, Q_top}

\* a pop that succeeds on the root and leaves it in place
pop_root_stays(current) ==
    IF current = L_slash THEN Some(L_slash) ELSE Parent(current)

\* PathBuf::pop: the parent, or None when there is none and the path stays
pop(current) == Parent(current)

LocateCandidate == Join(Join(aux.current, L_node_modules), req.package)

InitLocate ==
    /\ pc = "probe"
    /\ op = "locate"
    /\ fs = LocateWorld
    /\ opts = None
    /\ req \in [start : LocateStarts, project_root : LocateRoots,
                package : LocatePackages]
    /\ resp = None
    /\ aux = [current |-> req.start, probed |-> {}]

\* candidate.exists(): return Some(candidate)
LocateFound ==
    /\ pc = "probe" /\ op = "locate"
    /\ exists(fs, LocateCandidate)
    /\ resp' = Some(LocateCandidate)
    /\ aux' = [aux EXCEPT !.probed = @ \cup {aux.current}]
    /\ pc' = "done"
    /\ UNCHANGED <<op, fs, req, opts>>

\* current == root: break
LocateAtRoot ==
    /\ pc = "probe" /\ op = "locate"
    /\ ~exists(fs, LocateCandidate)
    /\ IsSome(req.project_root) /\ PathEq(aux.current, Unwrap(req.project_root))
    /\ aux' = [aux EXCEPT !.probed = @ \cup {aux.current}]
    /\ pc' = "done"
    /\ UNCHANGED <<op, fs, req, opts, resp>>

\* neither found nor at the root: on to current.pop()
LocateMiss ==
    /\ pc = "probe" /\ op = "locate"
    /\ ~exists(fs, LocateCandidate)
    /\ ~(IsSome(req.project_root) /\ PathEq(aux.current, Unwrap(req.project_root)))
    /\ aux' = [aux EXCEPT !.probed = @ \cup {aux.current}]
    /\ pc' = "pop"
    /\ UNCHANGED <<op, fs, req, opts, resp>>

\* !current.pop(): break
LocateAtTop ==
    /\ pc = "pop" /\ op = "locate"
    /\ ~IsSome(pop(aux.current))
    /\ pc' = "done"
    /\ UNCHANGED <<op, fs, req, opts, resp, aux>>

\* current.pop() succeeded: next iteration
LocateUp ==
    /\ pc = "pop" /\ op = "locate"
    /\ IsSome(pop(aux.current))
    /\ aux' = [aux EXCEPT !.current = Unwrap(pop(aux.current))]
    /\ pc' = "probe"
    /\ UNCHANGED <<op, fs, req, opts, resp>>

NextLocate == LocateFound \/ LocateAtRoot \/ LocateMiss \/ LocateAtTop \/ LocateUp

SpecLocate == InitLocate /\ [][NextLocate]_vars

\* control leaves the program point it is at
LocateStep ==
    /\ op = "locate" /\ pc \in {"probe", "pop"}
    /\ pc' \in {"probe", "pop", "done"} /\ pc' # pc

\* the thread that runs the loop is not suspended forever
FairSpecLocate == SpecLocate /\ WF_pc(LocateStep)

----------------------------------------------------------------------------
(* Calls of resolve_with_extensions: the directory /w/src, in which rel is  *)
(* absent, a file or a directory, beside rel.ts, rel.js and a directory     *)
(* rel.tsx.                                                                 *)

X_rel == <<"/", "w", "/", "s", "r", "c", "/", "r", "e", "l">>
X_rel_relative == <<"s", "r", "c", "/", "r", "e", "l">>
X_rel_slash == <<"/", "w", "/", "s", "r", "c", "/", "r", "e", "l", "/">>
X_none == <<"/", "w", "/", "s", "r", "c", "/", "n", "o", "n", "e">>
G_rel == <<"r", "e", "l">>
G_rel_ts == <<"r", "e", "l", ".", "t", "s">>
G_rel_js == <<"r", "e", "l", ".", "j", "s">>
G_rel_tsx_keep == <<"r", "e", "l", ".", "t", "s", "x", "/", "k", "e", "e", "p">>
G_index_ts == <<"r", "e", "l", "/", "i", "n", "d", "e", "x", ".", "t", "s">>
G_index_js == <<"r", "e", "l", "/", "i", "n", "d", "e", "x", ".", "j", "s">>
G_index_tsx_keep == <<"r", "e", "l", "/", "i", "n", "d", "e", "x", ".", "t", "s", "x", "/", "k", "e", "e", "p">>
G_readme == <<"r", "e", "l", "/", "r", "e", "a", "d", "m", "e">>

\* rel: absent, a regular file, or a directory with some of its entries
RelShapes ==
    {{}, {G_rel}}
    \cup {{G_readme} \cup s : s \in SUBSET {G_index_ts, G_index_js, G_index_tsx_keep}}

PathWorlds ==
    {LET files == {FileAt(Join(W_src, x)) : x \in r \cup s}
     IN  [cwd |-> FileAt(W_cwd), files |-> files, dirs |-> DirsOf(files) \cup {FileAt(W_src)},
          json |-> <<>>, order |-> "asc"] :
        r \in RelShapes, s \in SUBSET {G_rel_ts, G_rel_js, G_rel_tsx_keep}}

PathTargets == {X_rel, X_rel_relative, X_rel_slash, X_none}

ExtensionLists ==
    {DefaultResolveOptions.extensions, <<L_js, L_ts>>, <<L_tsx, L_js>>, <<L_tsx>>, <<>>}

InitExtensions ==
    /\ pc = "call"
    /\ op = "extensions"
    /\ fs \in PathWorlds
    /\ req \in [target : PathTargets, extensions : ExtensionLists]
    /\ opts = None
    /\ resp = None
    /\ aux = <<>>

\* one call of resolve_with_extensions
ProbeExtensions ==
    /\ pc = "call"
    /\ op = "extensions"
    /\ resp' = resolve_with_extensions(fs, req.target, req.extensions)
    /\ pc' = "done"
    /\ UNCHANGED <<op, fs, req, opts, aux>>

NextExtensions == ProbeExtensions

SpecExtensions == InitExtensions /\ [][NextExtensions]_vars

----------------------------------------------------------------------------
(* analyze_module_native and GraphVisitor.  A source file is missing,      *)
(* unparseable, or a module: the sequence of its top-level items as swc     *)
(* parses them.  Items: <<"Import", src>>, <<"ExportClass", name>>,         *)
(* <<"ExportFn", name>>, <<"ExportVar", pats>>, <<"ExportOtherDecl">>,      *)
(* <<"ExportAll", src>>, <<"ExportNamed", specifiers>>,                     *)
(* <<"ExportDefaultDecl", kind, ident>>, <<"ExportDefaultExpr">>,           *)
(* <<"OtherDecl">> and <<"Stmt">>.  Patterns: <<"Ident", name>>,            *)
(* <<"Array", elems>> with elems of Option<Pat>, <<"Object", props>> with   *)
(* props <<"KeyValue", key, value>>, <<"Assign", key>> or <<"Rest">>, and   *)
(* <<"Other">>.                                                             *)

A_foo == <<".", "/", "f", "o", "o">>
A_dep == <<".", "/", "d", "e", "p">>
A_bar == <<"b", "a", "r">>
A_baz == <<"b", "a", "z">>
A_qux == <<"q", "u", "x">>
A_default == <<"d", "e", "f", "a", "u", "l", "t">>
A_star_from == <<"*", "f", "r", "o", "m", ":">>
A_star_as == <<"*", "a", "s", ":">>

\* the frames of visit_module_item the thread's stack holds
MaxStack == 3

\* the most top-level items a module of the inputs has
MaxItems == 2

RECURSIVE collect_pats(_, _)
RECURSIVE CollectElems(_, _, _)
RECURSIVE CollectProps(_, _, _)

CollectElems(exports, elems, i) ==
    IF i > Len(elems) THEN exports
    ELSE CollectElems(IF IsSome(elems[i]) THEN collect_pats(exports, Unwrap(elems[i]))
                      ELSE exports,
                      elems, i + 1)

CollectProps(exports, props, i) ==
    IF i > Len(props) THEN exports
    ELSE CollectProps(
            IF props[i][1] = "KeyValue"
            THEN (IF props[i][2][1] = "Ident" THEN exports \cup {props[i][2][2]}
                  ELSE exports)
            ELSE IF props[i][1] = "Assign" THEN exports \cup {props[i][2]}
            ELSE exports,
            props, i + 1)

collect_pats(exports, pat) ==
    IF pat[1] = "Ident" THEN exports \cup {pat[2]}
    ELSE IF pat[1] = "Array" THEN CollectElems(exports, pat[2], 1)
    ELSE IF pat[1] = "Object" THEN CollectProps(exports, pat[2], 1)
    ELSE exports

RECURSIVE CollectDecls(_, _, _)
CollectDecls(exports, decls, i) ==
    IF i > Len(decls) THEN exports
    ELSE CollectDecls(collect_pats(exports, decls[i]), decls, i + 1)

\* the name of an export specifier: <<"Ident", sym>> or <<"Str", value>>
ExportName(name) == name[2]

RECURSIVE CollectSpecifiers(_, _, _)
CollectSpecifiers(exports, specifiers, i) ==
    IF i > Len(specifiers) THEN exports
    ELSE CollectSpecifiers(
            IF specifiers[i][1] = "Named"
            THEN exports \cup {ExportName(IF IsSome(specifiers[i][3])
                                          THEN Unwrap(specifiers[i][3])
                                          ELSE specifiers[i][2])}
            ELSE IF specifiers[i][1] = "Default" THEN exports \cup {A_default}
            ELSE exports \cup {A_star_as \o ExportName(specifiers[i][2])},
            specifiers, i + 1)

\* the match of visit_module_item on one item: the visitor's sets after it
VisitMatch(v, item) ==
    IF item[1] = "Import" THEN [v EXCEPT !.imports = @ \cup {item[2]}]
    ELSE IF item[1] \in {"ExportClass", "ExportFn"}
         THEN [v EXCEPT !.exports = @ \cup {item[2]}]
    ELSE IF item[1] = "ExportVar"
         THEN [v EXCEPT !.exports = CollectDecls(@, item[2], 1)]
    ELSE IF item[1] = "ExportAll"
         THEN [v EXCEPT !.exports = @ \cup {A_star_from \o item[2]}]
    ELSE IF item[1] = "ExportNamed"
         THEN [v EXCEPT !.exports = CollectSpecifiers(@, item[2], 1)]
    ELSE IF item[1] = "ExportDefaultDecl"
         THEN [v EXCEPT !.exports =
                  @ \cup {IF item[2] \in {"Class", "Fn"} /\ IsSome(item[3])
                          THEN Unwrap(item[3]) ELSE A_default}]
    ELSE IF item[1] = "ExportDefaultExpr"
         THEN [v EXCEPT !.exports = @ \cup {A_default}]
    ELSE v

\* GraphVisitor::default()
NewVisitor == [imports |-> {}, exports |-> {}]

AnalyzeItems ==
    {<<"Import", A_foo>>, <<"Import", A_dep>>,
     <<"ExportClass", A_baz>>, <<"ExportFn", A_qux>>,
     <<"ExportVar", <<<<"Ident", A_bar>>>>>>,
     <<"ExportVar", <<<<"Array", <<None, Some(<<"Ident", A_baz>>)>>>>,
                      <<"Object", <<<<"KeyValue", <<"Ident", A_qux>>,
                                      <<"Ident", A_bar>>>>,
                                    <<"Assign", A_baz>>, <<"Rest">>>>>>>>>>,
     <<"ExportOtherDecl">>,
     <<"ExportAll", A_dep>>,
     <<"ExportNamed", <<<<"Named", <<"Ident", A_bar>>, Some(<<"Str", A_baz>>)>>,
                        <<"Named", <<"Ident", A_qux>>, None>>,
                        <<"Default">>, <<"Namespace", <<"Ident", A_baz>>>>>>>>,
     <<"ExportDefaultDecl", "Class", Some(A_baz)>>,
     <<"ExportDefaultDecl", "Fn", None>>,
     <<"ExportDefaultDecl", "TsInterface", None>>,
     <<"ExportDefaultExpr">>,
     <<"OtherDecl">>, <<"Stmt">>}

AnalyzeSources ==
    {<<"missing">>, <<"invalid">>}
    \cup {<<"module", items>> :
            items \in UNION {[1..n -> AnalyzeItems] : n \in 0..MaxItems}}

\* req.source is what the file at module_path holds; aux.frames counts the
\* visit_module_item frames on the stack, and aux.tail_call tells whether
\* the build turned the handler's trailing call into a jump.
InitAnalyze ==
    /\ pc = "call"
    /\ op = "analyze"
    /\ fs = LocateWorld
    /\ opts = None
    /\ req \in [module_path : {W_importer}, source : AnalyzeSources]
    /\ resp = None
    /\ aux \in [visitor : {NewVisitor}, frames : {0}, tail_call : BOOLEAN]

\* fs::read_to_string fails
AnalyzeReadFails ==
    /\ pc = "call" /\ op = "analyze"
    /\ req.source[1] = "missing"
    /\ resp' = <<"err", "Failed to read">>
    /\ pc' = "done"
    /\ UNCHANGED <<op, fs, req, opts, aux>>

\* parser.parse_module() fails
AnalyzeParseFails ==
    /\ pc = "call" /\ op = "analyze"
    /\ req.source[1] = "invalid"
    /\ resp' = <<"err", "Parse error">>
    /\ pc' = "done"
    /\ UNCHANGED <<op, fs, req, opts, aux>>

\* the module parsed: visitor.visit_module(&module) starts
AnalyzeParsed ==
    /\ pc = "call" /\ op = "analyze"
    /\ req.source[1] = "module"
    /\ pc' = "visit"
    /\ UNCHANGED <<op, fs, req, opts, resp, aux>>

\* visit_module found no item to visit: Ok(AnalyzeResponse)
AnalyzeReturns ==
    /\ pc = "visit" /\ op = "analyze"
    /\ req.source[2] = <<>>
    /\ resp' = <<"ok", [imports |-> aux.visitor.imports,
                        exports |-> aux.visitor.exports,
                        transformed |-> req.source]>>
    /\ pc' = "done"
    /\ UNCHANGED <<op, fs, req, opts, aux>>

\* visit_module_item is entered for the first item: from visit_module, and
\* then from its own last statement, Visit::visit_module_item(self, item),
\* which names this same method; the frame is kept unless the call is a jump
VisitModuleItem ==
    /\ pc = "visit" /\ op = "analyze"
    /\ req.source[2] # <<>>
    /\ aux.frames < MaxStack
    /\ aux' = [aux EXCEPT !.visitor = VisitMatch(@, req.source[2][1]),
                          !.frames = IF aux.tail_call /\ @ >= 1 THEN @ ELSE @ + 1]
    /\ UNCHANGED <<pc, op, fs, req, opts, resp>>

\* the stack is full: the process aborts
StackOverflow ==
    /\ pc = "visit" /\ op = "analyze"
    /\ req.source[2] # <<>>
    /\ aux.frames >= MaxStack
    /\ pc' = "aborted"
    /\ UNCHANGED <<op, fs, req, opts, resp, aux>>

NextAnalyze ==
    \/ AnalyzeReadFails \/ AnalyzeParseFails \/ AnalyzeParsed \/ AnalyzeReturns
    \/ VisitModuleItem \/ StackOverflow

SpecAnalyze == InitAnalyze /\ [][NextAnalyze]_vars

\* the thread that runs the call is not suspended forever
FairSpecAnalyze == SpecAnalyze /\ WF_vars(NextAnalyze)

----------------------------------------------------------------------------
(* batch_discover_typings (src-tauri/src/services/batch_file_reader.rs) *)

\* a discovery that fails for a package without typings
discover_typings_or_err(f, package_name, project_root) ==
    LET res == discover_typings_native(f, package_name, project_root)
    IN  IF res.files = <<>> THEN <<"err", res>> ELSE <<"ok", res>>

\* the Result<TypingsResponse> of discover_typings_native: always Ok
discover_typings_result(f, package_name, project_root) ==
    <<"ok", discover_typings_native(f, package_name, project_root)>>

\* package_names.iter().filter_map(|name| discover(name, &root).ok()).collect()
RECURSIVE FilterMapOk(_, _, _, _, _)
FilterMapOk(f, package_names, root, i, results) ==
    IF i > Len(package_names) THEN results
    ELSE FilterMapOk(f, package_names, root, i + 1,
            IF discover_typings_result(f, package_names[i], root)[1] = "ok"
            THEN Append(results, discover_typings_result(f, package_names[i], root)[2])
            ELSE results)

batch_discover_typings(f, package_names, project_root) ==
    FilterMapOk(f, package_names, project_root, 1, <<>>)

\* the most names a batch of the inputs has
MaxBatch == 3

BatchNames == UNION {[1..n -> {Y_foo, Y_bar, Y_scoped}] : n \in 0..MaxBatch}

BatchWorlds ==
    {TypingsWorld(2, m, TRUE, TRUE, a, "asc") :
        m \in {<<"absent", <<>>>>,
               <<"json", JObj(<<<<L_types, JStr(F_types_index)>>>>)>>,
               <<"json", JObj(<<<<L_typings, JStr(T_types_index)>>>>)>>},
        a \in BOOLEAN}

InitBatch ==
    /\ pc = "call"
    /\ op = "batch"
    /\ fs \in BatchWorlds
    /\ req \in [package_names : BatchNames, project_root : {W_cwd}]
    /\ opts = None
    /\ resp = <<>>
    /\ aux = <<>>

\* one call of batch_discover_typings
BatchDiscover ==
    /\ pc = "call"
    /\ op = "batch"
    /\ resp' = batch_discover_typings(fs, req.package_names, req.project_root)
    /\ pc' = "done"
    /\ UNCHANGED <<op, fs, req, opts, aux>>

NextBatch == BatchDiscover

SpecBatch == InitBatch /\ [][NextBatch]_vars

----------------------------------------------------------------------------
(* Concurrent calls of resolve, discover_typings and analyze *)

\* the calls in flight at once
NumCalls == 2

\* a single visited set that every call reads
SharedVisited(calls, i) ==
    [calls[i].st EXCEPT !.visited = UNION {calls[j].st.visited : j \in DOMAIN calls}]

\* the files vector and the visited set are locals of each
\* discover_typings_native call
CallLocals(calls, i) == calls[i].st

\* what analyze_module_native gives for a source when run alone
analyze_module_alone(source) ==
    IF source[1] = "missing" THEN <<"err", "Failed to read">>
    ELSE IF source[1] = "invalid" THEN <<"err", "Parse error">>
    ELSE IF source[2] = <<>>
         THEN <<"ok", [imports |-> NewVisitor.imports,
                       exports |-> NewVisitor.exports,
                       transformed |-> source]>>
         ELSE <<"diverges">>

\* the response of a call when it is the only one running
Alone(f, call) ==
    IF call.kind = "resolve"
    THEN resolve_module_native(f, call.request, call.options)
    ELSE IF call.kind = "typings"
         THEN discover_typings_native(f, call.package_name, call.project_root)
         ELSE analyze_module_alone(call.source)

ConcurrentWorlds ==
    {TypingsWorld(MaxDirFiles,
                  <<"json", JObj(<<<<L_types, JStr(F_types_index)>>>>)>>,
                  TRUE, TRUE, TRUE, "asc"),
     ResolveWorld(TestManifest, AllPkgFiles)}

ConcurrentCalls ==
    {[kind |-> "typings", package_name |-> Y_foo, project_root |-> W_cwd],
     [kind |-> "resolve",
      request |-> [specifier |-> S_pkg, importer |-> W_importer,
                   project_root |-> Some(W_cwd)],
      options |-> None]}
    \cup {[kind |-> "analyze", module_path |-> W_importer, source |-> s] :
            s \in {<<"missing">>, <<"module", <<>>>>,
                   <<"module", <<<<"Import", A_foo>>>>>>}}

NewCall == [at |-> "start", st |-> NoTypings, visitor |-> NewVisitor, frames |-> 0]

\* req[i] is the i-th call, aux.calls[i] its program point and locals,
\* resp[i] its response once it returned; aux.overlapped records that a call
\* took a step while another one was between its first and its last step
InitConcurrent ==
    /\ pc = "run"
    /\ op = "concurrent"
    /\ fs \in ConcurrentWorlds
    /\ opts = None
    /\ req \in [1..NumCalls -> ConcurrentCalls]
    /\ resp = [i \in 1..NumCalls |-> <<"pending">>]
    /\ aux \in [calls : {[i \in 1..NumCalls |-> NewCall]},
                overlapped : {FALSE}, tail_call : BOOLEAN]

Overlaps(i) == \E j \in 1..NumCalls \ {i} : aux.calls[j].at \notin {"start", "done"}

\* call i moves on with new locals
Advance(i, call) ==
    /\ aux' = [aux EXCEPT !.calls[i] = call, !.overlapped = @ \/ Overlaps(i)]
    /\ UNCHANGED <<pc, op, fs, req, opts, resp>>

\* call i returns a response
Return(i, response) ==
    /\ resp' = [resp EXCEPT ![i] = <<"returned", response>>]
    /\ aux' = [aux EXCEPT !.calls[i].at = "done", !.overlapped = @ \/ Overlaps(i)]
    /\ pc' = IF \A j \in 1..NumCalls \ {i} : aux.calls[j].at = "done"
             THEN "done" ELSE "run"
    /\ UNCHANGED <<op, fs, req, opts>>

Running(i, kind, at) ==
    pc = "run" /\ op = "concurrent" /\ req[i].kind = kind /\ aux.calls[i].at = at

\* resolve_module_native reads the filesystem only
ConcurrentResolve(i) ==
    /\ Running(i, "resolve", "start")
    /\ Return(i, resolve_module_native(fs, req[i].request, req[i].options))

\* discover_typings_native, sources 1 to 3: the package's own directory
ConcurrentDiscoverPackage(i) ==
    /\ Running(i, "typings", "start")
    /\ Advance(i, [aux.calls[i] EXCEPT
            !.at = "types",
            !.st = DiscoverPackage(fs, CallLocals(aux.calls, i),
                      resolve_package_dir(fs, req[i].project_root,
                          Some(req[i].project_root), req[i].package_name))])

\* discover_typings_native, source 4: the @types package
ConcurrentDiscoverTypesPackage(i) ==
    /\ Running(i, "typings", "types")
    /\ Advance(i, [aux.calls[i] EXCEPT
            !.at = "finish",
            !.st = DiscoverTypesPackage(fs, CallLocals(aux.calls, i),
                      resolve_package_dir(fs, req[i].project_root,
                          Some(req[i].project_root),
                          TypesPackage(req[i].package_name)))])

\* files.sort(); files.dedup(); Ok(TypingsResponse)
ConcurrentDiscoverReturns(i) ==
    /\ Running(i, "typings", "finish")
    /\ Return(i, TypingsResponse(req[i].package_name, CallLocals(aux.calls, i)))

\* fs::read_to_string or the parser fails
ConcurrentAnalyzeFails(i) ==
    /\ Running(i, "analyze", "start")
    /\ req[i].source[1] # "module"
    /\ Return(i, analyze_module_alone(req[i].source))

\* the module parsed: visitor.visit_module(&module) starts
ConcurrentAnalyzeParsed(i) ==
    /\ Running(i, "analyze", "start")
    /\ req[i].source[1] = "module"
    /\ Advance(i, [aux.calls[i] EXCEPT !.at = "visit"])

\* visit_module found no item to visit: Ok(AnalyzeResponse)
ConcurrentAnalyzeReturns(i) ==
    /\ Running(i, "analyze", "visit")
    /\ req[i].source[2] = <<>>
    /\ Return(i, <<"ok", [imports |-> aux.calls[i].visitor.imports,
                          exports |-> aux.calls[i].visitor.exports,
                          transformed |-> req[i].source]>>)

\* visit_module_item enters itself for the same item
ConcurrentVisitModuleItem(i) ==
    /\ Running(i, "analyze", "visit")
    /\ req[i].source[2] # <<>>
    /\ aux.calls[i].frames < MaxStack
    /\ Advance(i, [aux.calls[i] EXCEPT
            !.visitor = VisitMatch(@, req[i].source[2][1]),
            !.frames = IF aux.tail_call /\ aux.calls[i].frames >= 1
                       THEN aux.calls[i].frames ELSE aux.calls[i].frames + 1])

\* the stack of the thread of call i is full: the process aborts, and with
\* it every call in flight
ConcurrentStackOverflow(i) ==
    /\ Running(i, "analyze", "visit")
    /\ req[i].source[2] # <<>>
    /\ aux.calls[i].frames >= MaxStack
    /\ pc' = "aborted"
    /\ UNCHANGED <<op, fs, req, opts, resp, aux>>

NextConcurrent ==
    \E i \in 1..NumCalls :
        \/ ConcurrentResolve(i)
        \/ ConcurrentDiscoverPackage(i)
        \/ ConcurrentDiscoverTypesPackage(i)
        \/ ConcurrentDiscoverReturns(i)
        \/ ConcurrentAnalyzeFails(i)
        \/ ConcurrentAnalyzeParsed(i)
        \/ ConcurrentAnalyzeReturns(i)
        \/ ConcurrentVisitModuleItem(i)
        \/ ConcurrentStackOverflow(i)

SpecConcurrent == InitConcurrent /\ [][NextConcurrent]_vars

----------------------------------------------------------------------------
(* select_export_target on condition maps *)

\* the most conditions a caller of the inputs supplies
MaxConditions == 2

Absent == <<"absent", <<>>>>

\* what a key of a condition map holds: a target, null, an empty array, or
\* a nested condition map
SelectValues ==
    {JStr(F_esm), JStr(F_cjs), JNull, JArr(<<>>),
     JObj(<<<<L_require, JStr(F_cjs)>>>>)}

Entry(k, v) == IF v = Absent THEN <<>> ELSE <<<<k, v>>>>

SelectMaps ==
    {JObj(Entry(L_default, d) \o Entry(L_import, i) \o Entry(L_require, r)) :
        d \in SelectValues \cup {Absent},
        i \in SelectValues \cup {Absent},
        r \in SelectValues \cup {Absent}}

SelectConditions ==
    UNION {[1..n -> {L_import, L_require, L_default}] : n \in 0..MaxConditions}

InitSelect ==
    /\ pc = "call"
    /\ op = "select"
    /\ fs = LocateWorld
    /\ opts = None
    /\ req \in [value : SelectMaps, conditions : SelectConditions]
    /\ resp = None
    /\ aux = <<>>

\* one call of select_export_target
Select ==
    /\ pc = "call"
    /\ op = "select"
    /\ resp' = select_export_target(req.value, req.conditions)
    /\ pc' = "done"
    /\ UNCHANGED <<op, fs, req, opts, aux>>

NextSelect == Select

SpecSelect == InitSelect /\ [][NextSelect]_vars

----------------------------------------------------------------------------
(* resolve_pkg_main on varied manifests and package directories *)

R_browser == <<".", "/", "b", "r", "o", "w", "s", "e", "r", ".", "j", "s">>
R_browser_js == <<"b", "r", "o", "w", "s", "e", "r", ".", "j", "s">>
R_index_ts == <<"i", "n", "d", "e", "x", ".", "t", "s">>

\* manifests whose fields, where they are strings, each name a file of
\* their own
MainManifests ==
    {<<"absent", <<>>>>, <<"garbage", <<>>>>, <<"json", JArr(<<>>)>>}
    \cup {<<"json", JObj(Entry(L_browser, b) \o Entry(L_main, m)
                         \o Entry(L_module, e) \o Entry(L_types, t)
                         \o Entry(L_typings, y))>> :
            b \in {Absent, JStr(R_browser)},
            m \in {Absent, JStr(T_cjs)},
            e \in {Absent, JStr(T_esm), JNull},
            t \in {Absent, JStr(F_types_index), JNull},
            y \in {Absent, JStr(L_index_d_ts)}}

\* which of the files the fields name exist
MainFileSets ==
    {{F_types_index, L_index_d_ts, F_esm, F_cjs, R_browser_js},
     {L_index_d_ts, R_browser_js}, {F_cjs, R_browser_js}, {F_esm},
     {R_browser_js}, {}}

\* which index files the package directory holds
MainIndexSets == {{}, {F_index_js}, {F_index_js, R_index_ts}}

\* the package directory with a manifest, files, and possibly a file
\* pkg.js beside it
MainWorld(manifest, pkgfiles, sibling) ==
    LET files == {FileAt(W_importer)}
                 \cup {FileAt(Join(W_pkg_dir, x)) : x \in pkgfiles}
                 \cup (IF manifest[1] = "absent" THEN {}
                       ELSE {FileAt(Join(W_pkg_dir, L_package_json))})
                 \cup (IF sibling THEN {FileAt(W_pkg_dir \o L_js)} ELSE {})
    IN  [cwd |-> FileAt(W_cwd),
         files |-> files,
         dirs |-> DirsOf(files) \cup {FileAt(W_pkg_dir)},
         json |-> IF manifest[1] = "json"
                  THEN FileAt(Join(W_pkg_dir, L_package_json)) :> manifest[2]
                  ELSE <<>>,
         order |-> "asc"]

\* node_modules/pkg is a regular file
PkgIsFileWorld ==
    [cwd |-> FileAt(W_cwd),
     files |-> {FileAt(W_importer), FileAt(W_pkg_dir)},
     dirs |-> DirsOf({FileAt(W_importer), FileAt(W_pkg_dir)}),
     json |-> <<>>,
     order |-> "asc"]

MainExtensions == {DefaultResolveOptions.extensions, <<L_js, L_ts>>}

\* req.pkg_json is read_package_json(&pkg_dir).ok() as resolve_module_native
\* passes it
InitMain ==
    /\ pc = "call"
    /\ op = "main"
    /\ fs \in {MainWorld(m, x \cup i, s) :
                  m \in MainManifests, x \in MainFileSets, i \in MainIndexSets,
                  s \in BOOLEAN}
              \cup {PkgIsFileWorld}
    /\ opts = None
    /\ req \in {[pkg_dir |-> W_pkg_dir,
                 pkg_json |-> read_package_json(fs, W_pkg_dir),
                 extensions |-> e] : e \in MainExtensions}
    /\ resp = None
    /\ aux = <<>>

\* one call of resolve_pkg_main
ResolvePkgMain ==
    /\ pc = "call"
    /\ op = "main"
    /\ resp' = resolve_pkg_main(fs, req.pkg_dir, req.pkg_json, req.extensions)
    /\ pc' = "done"
    /\ UNCHANGED <<op, fs, req, opts, aux>>

NextMain == ResolvePkgMain

SpecMain == InitMain /\ [][NextMain]_vars

----------------------------------------------------------------------------
(* select_export_target_with_conditions on varied exports values *)

\* what a key of a condition map or an array holds: a declaration file, a
\* script, null, arrays and nested condition maps of them
TypesLeaves ==
    {JStr(T_types_index), JStr(T_index_js), JNull,
     JArr(<<JStr(T_index_js), JStr(T_types_a_x)>>),
     JArr(<<JStr(T_esm)>>),
     JObj(<<<<L_types, JStr(T_esm)>>>>),
     JObj(<<<<L_default, JStr(T_cjs)>>>>),
     JObj(<<<<L_typings, JStr(T_cjs)>>, <<L_default, JStr(T_types_a_x)>>>>)}

TypesValues ==
    TypesLeaves
    \cup {JObj(Entry(L_default, d) \o Entry(L_types, t) \o Entry(L_typings, y)) :
            d \in TypesLeaves \cup {Absent},
            t \in TypesLeaves \cup {Absent},
            y \in TypesLeaves \cup {Absent}}

InitTypesSelect ==
    /\ pc = "call"
    /\ op = "select_types"
    /\ fs = LocateWorld
    /\ opts = None
    /\ req \in [value : TypesValues, conditions : {TypesConditions}]
    /\ resp = None
    /\ aux = <<>>

\* one call of select_export_target_with_conditions, with the conditions
\* resolve_exports_types passes
SelectTypes ==
    /\ pc = "call"
    /\ op = "select_types"
    /\ resp' = select_export_target_with_conditions(req.value, req.conditions)
    /\ pc' = "done"
    /\ UNCHANGED <<op, fs, req, opts, aux>>

NextTypesSelect == SelectTypes

SpecTypesSelect == InitTypesSelect /\ [][NextTypesSelect]_vars

----------------------------------------------------------------------------
(* resolve_node_module (src-tauri/src/services/node_resolver.rs): the      *)
(* options built from the command's arguments                               *)

\* conditions, extensions and prefer_cjs are Options; an empty list counts
\* as not given
build_options(conditions, extensions, prefer_cjs) ==
    [conditions |-> IF IsSome(conditions) /\ Unwrap(conditions) # <<>>
                    THEN Unwrap(conditions)
                    ELSE DefaultResolveOptions.conditions,
     extensions |-> IF IsSome(extensions) /\ Unwrap(extensions) # <<>>
                    THEN Unwrap(extensions)
                    ELSE DefaultResolveOptions.extensions,
     prefer_cjs |-> IF IsSome(prefer_cjs) THEN Unwrap(prefer_cjs)
                    ELSE DefaultResolveOptions.prefer_cjs]

\* the condition lists a caller supplies
CallerConditions ==
    {None} \cup {Some(c) : c \in SelectConditions}

\* calls of the command for "pkg", whose exports value is a condition map
InitPrefer ==
    /\ pc = "call"
    /\ op = "resolve"
    /\ resp = NoResponse
    /\ aux = NoLocals
    /\ fs \in {ResolveWorld(<<"json", JObj(<<<<L_exports, e>>>>)>>, AllPkgFiles) :
                  e \in ConditionMaps}
    /\ req = [specifier |-> S_pkg, importer |-> W_importer,
              project_root |-> Some(W_cwd)]
    /\ opts \in {Some(build_options(c, None, p)) :
                    c \in CallerConditions, p \in {None, Some(TRUE), Some(FALSE)}}

SpecPrefer == InitPrefer /\ [][NextResolve]_vars

----------------------------------------------------------------------------
(* RingBuffer (src-tauri/src/profiling/buffer.rs)                           *)

\* the largest capacity a buffer of the inputs is created with
MaxCapacity == 3

\* the most spans pushed in one run
MaxPushes == 5

\* the largest limit recent is called with
MaxLimit == 4

\* A span is its id and its start time.  aux holds the buffer's fields data,
\* capacity and reference_time, the number of spans pushed so far, and the
\* data as it was before the last operation; req is the last operation and
\* resp what recent returned.
InitRing ==
    /\ pc = "idle"
    /\ op = "ring"
    /\ fs = LocateWorld
    /\ opts = None
    /\ req = [op |-> "new"]
    /\ resp = <<>>
    /\ aux \in [data : {<<>>}, capacity : 0..MaxCapacity, reference_time : {None},
                pushed : {0}, before : {<<>>}]

\* RingBuffer::push
RingPush ==
    /\ op = "ring"
    /\ aux.pushed < MaxPushes
    /\ \E start_time \in {0, aux.pushed} :
        /\ req' = [op |-> "push",
                   span |-> [id |-> aux.pushed, start_time |-> start_time]]
        /\ aux' = [aux EXCEPT
                !.reference_time = IF @ = None THEN Some(start_time) ELSE @,
                !.data = Append(IF Len(@) >= aux.capacity /\ @ # <<>>
                                THEN Tail(@) ELSE @,
                                [id |-> aux.pushed, start_time |-> start_time]),
                !.pushed = @ + 1,
                !.before = aux.data]
    /\ UNCHANGED <<pc, op, fs, opts, resp>>

\* RingBuffer::recent: the summaries carry the id and the start time
\* relative to reference_time (Instant::duration_since gives zero for an
\* earlier instant)
RingRecent ==
    /\ op = "ring"
    /\ \E limit \in 0..MaxLimit :
        /\ req' = [op |-> "recent", limit |-> limit]
        /\ resp' = [i \in 1..(IF limit < Len(aux.data) THEN limit ELSE Len(aux.data)) |->
                      [id |-> aux.data[Len(aux.data) + 1 - i].id,
                       start_time_ms |->
                          IF IsSome(aux.reference_time)
                             /\ aux.data[Len(aux.data) + 1 - i].start_time
                                  >= Unwrap(aux.reference_time)
                          THEN aux.data[Len(aux.data) + 1 - i].start_time
                                  - Unwrap(aux.reference_time)
                          ELSE 0]]
    /\ aux' = [aux EXCEPT !.before = aux.data]
    /\ UNCHANGED <<pc, op, fs, opts>>

\* RingBuffer::clear
RingClear ==
    /\ op = "ring"
    /\ req' = [op |-> "clear"]
    /\ aux' = [aux EXCEPT !.data = <<>>, !.reference_time = None,
                          !.before = aux.data]
    /\ UNCHANGED <<pc, op, fs, opts, resp>>

NextRing == RingPush \/ RingRecent \/ RingClear

SpecRing == InitRing /\ [][NextRing]_vars

----------------------------------------------------------------------------
(* resolve calls from absolute and relative importers *)

\* calls for "pkg" and a subpath of it, from the importer given as an
\* absolute path, relative to the working directory, and as a bare file name
InitImporter ==
    /\ pc = "call"
    /\ op = "resolve"
    /\ resp = NoResponse
    /\ aux = NoLocals
    /\ fs \in {ResolveWorld(<<"json", JObj(<<<<L_exports, e>>>>)>>, s) :
                  e \in ConditionMaps
                        \cup {JStr(T_esm),
                              JObj(<<<<K_feature_star, JStr(T_feature)>>>>)},
                  s \in {AllPkgFiles, TestPkgFiles}}
    /\ req \in [specifier : {S_pkg, S_pkg_feature_x},
                importer : {W_importer, W_importer_rel, W_importer_bare},
                project_root : {None, Some(W_cwd)}]
    /\ opts \in PackageOptions

SpecImporter == InitImporter /\ [][NextResolve]_vars

----------------------------------------------------------------------------
(* Properties of resolve *)

ResolveDone == pc = "done" /\ op = "resolve"

IsBlank(s) == \A i \in 1..Len(s) : s[i] = " "

\* the exports key a subpath is looked up under
RequestedKey(subpath) ==
    IF subpath = L_dot THEN L_dot
    ELSE L_dot_slash \o trim_start_matches(subpath, L_dot_slash)

\* the entry of the manifest's exports for the requested subpath: the value
\* under the subpath's key, or the exports value itself for the root subpath
\* of an exports value without a "." key
ExportsEntry(pkg, subpath) ==
    LET e == get(pkg, L_exports)
        byKey == IF IsSome(e) THEN get(Unwrap(e), RequestedKey(subpath)) ELSE None
    IN  IF IsSome(byKey) THEN byKey
        ELSE IF subpath = L_dot THEN e
        ELSE None

\* a condition map with string targets under "import", "require", "default"
IsFullConditionMap(v) ==
    /\ v[1] = "obj"
    /\ \A k \in {L_import, L_require, L_default} : IsSome(and_then_as_str(get(v, k)))

(* C1: a request with a non-blank specifier and an importer that has a
   parent always gets a ResolveResponse; resolve returns an error only for a
   blank specifier (EmptySpecifier) or an importer without parent
   (MissingImporter), and never aborts. *)
C1_ResolveNeverAborts ==
    ResolveDone =>
        /\ resp.outcome \in {"ok", "EmptySpecifier", "MissingImporter"}
        /\ (resp.outcome = "EmptySpecifier" => IsBlank(req.specifier))
        /\ (resp.outcome = "MissingImporter" => ~IsSome(Parent(req.importer)))
        /\ (~IsBlank(req.specifier) /\ IsSome(Parent(req.importer))
                => resp.outcome = "ok")

(* C2: a blank (empty or whitespace-only) specifier fails with
   EmptySpecifier, whatever the importer (one without a parent included) and
   whatever the options. *)
C2_BlankSpecifierIsEmptySpecifier ==
    (ResolveDone /\ IsBlank(req.specifier)) => resp.outcome = "EmptySpecifier"

C2_Witness ==
    /\ ResolveDone
    /\ req.specifier = S_blanks
    /\ ~IsSome(Parent(req.importer))
    /\ IsSome(opts) /\ Unwrap(opts).prefer_cjs
    /\ resp.outcome = "EmptySpecifier"

(* C3: a response with resolved_path = None carries at least one warning. *)
C3_UnresolvedHasWarning ==
    (ResolveDone /\ resp.outcome = "ok" /\ ~IsSome(resp.resolved_path))
        => Len(resp.warnings) >= 1

(* C4: when the exports entry for the requested subpath is a condition map
   with "import", "require" and "default", conditions ["import","default"]
   select the "import" target with prefer_cjs = false and the "require"
   target with prefer_cjs = true. *)
C4_ConditionMapSelection ==
    (/\ ResolveDone
     /\ aux.bare
     /\ IsSome(aux.pkg_json)
     /\ IsSome(opts)
     /\ Unwrap(opts).conditions = <<L_import, L_default>>
     /\ IsSome(ExportsEntry(Unwrap(aux.pkg_json), aux.subpath))
     /\ IsFullConditionMap(Unwrap(ExportsEntry(Unwrap(aux.pkg_json), aux.subpath))))
        => aux.target =
             and_then_as_str(get(Unwrap(ExportsEntry(Unwrap(aux.pkg_json), aux.subpath)),
                                 IF Unwrap(opts).prefer_cjs THEN L_require
                                 ELSE L_import))

\* the "import" target of the condition map under the "." key of exports
ExportsImportTarget ==
    and_then_as_str(get(Unwrap(get(Unwrap(get(Unwrap(aux.pkg_json), L_exports)), L_dot)),
                        L_import))

(* C5: with exports = {".": {import: A, require: B, default: C}} and file A
   present in the package directory, resolving the bare package name with
   default options returns <package_dir>/A. *)
C5_RootConditionMapResolves ==
    (/\ ResolveDone
     /\ aux.bare
     /\ aux.subpath = L_dot
     /\ IsSome(aux.pkg_json)
     /\ opts \in {None, Some(DefaultResolveOptions)}
     /\ IsSome(get(Unwrap(aux.pkg_json), L_exports))
     /\ IsSome(get(Unwrap(get(Unwrap(aux.pkg_json), L_exports)), L_dot))
     /\ IsFullConditionMap(Unwrap(get(Unwrap(get(Unwrap(aux.pkg_json), L_exports)),
                                      L_dot)))
     /\ is_file(fs, Join(Unwrap(aux.pkg_dir),
                         Unwrap(ExportsImportTarget))))
        => /\ IsSome(resp.resolved_path)
           /\ Canon(fs, Unwrap(resp.resolved_path))
                = Canon(fs, Join(Unwrap(aux.pkg_dir), Unwrap(ExportsImportTarget)))

(* C6: a matched_export is the raw target string selected from the exports
   map (after wildcard substitution), not joined with the package
   directory. *)
C6_MatchedExportIsRawTarget ==
    (ResolveDone /\ resp.outcome = "ok" /\ IsSome(resp.matched_export))
        => resp.matched_export = aux.target

\* Pair i of the exports object is a wildcard key P*S whose value selects a
\* target, and the requested key, which is no exact key, is P m S.
WildcardApplies(i) ==
    LET exports == Unwrap(get(Unwrap(aux.pkg_json), L_exports))
        key == RequestedKey(aux.subpath)
        pattern == exports[2][i][1]
        star == find(pattern, "*")
    IN  /\ star # 0
        /\ ~IsSome(get(exports, key))
        /\ IsSome(select_export_target(exports[2][i][2], aux.conditions))
        /\ \E a, b \in 0..Len(key) :
              /\ a <= b
              /\ SubSeq(key, 1, a) = SubSeq(pattern, 1, star - 1)
              /\ SubSeq(key, b + 1, Len(key)) = SubSeq(pattern, star + 1, Len(pattern))

\* the target the claim expects of pair i: T with "*" replaced by m
WildcardExpected(i) ==
    LET exports == Unwrap(get(Unwrap(aux.pkg_json), L_exports))
        key == RequestedKey(aux.subpath)
        pattern == exports[2][i][1]
        star == find(pattern, "*")
        m == SubSeq(key, star, Len(key) - (Len(pattern) - star))
    IN  Some(replace(Unwrap(select_export_target(exports[2][i][2], aux.conditions)),
                     "*", m))

\* pair j of the exports object is a wildcard key whose prefix the requested
\* key starts with and whose suffix it ends with
SyntacticMatch(j) ==
    LET exports == Unwrap(get(Unwrap(aux.pkg_json), L_exports))
        key == RequestedKey(aux.subpath)
        pattern == exports[2][j][1]
        star == find(pattern, "*")
    IN  /\ star # 0
        /\ starts_with(key, SubSeq(pattern, 1, star - 1))
        /\ ends_with(key, SubSeq(pattern, star + 1, Len(pattern)))

WildcardLookup ==
    /\ ResolveDone
    /\ aux.bare
    /\ aux.subpath # L_dot
    /\ IsSome(aux.pkg_json)
    /\ IsSome(get(Unwrap(aux.pkg_json), L_exports))
    /\ Unwrap(get(Unwrap(aux.pkg_json), L_exports))[1] = "obj"

(* C7 as stated: for a wildcard key P*S whose value selects target T and a
   requested non-root key P m S that is no exact key, the target selected
   before the directory join is T with "*" replaced by m. *)
C7_WildcardSubstitution ==
    WildcardLookup =>
        \A i \in 1..Len(Unwrap(get(Unwrap(aux.pkg_json), L_exports))[2]) :
            WildcardApplies(i) => aux.target = WildcardExpected(i)

(* C7 amended: the same, for the first wildcard key in iteration order whose
   prefix the requested key starts with and whose suffix it ends with. *)
C7_FirstWildcardSubstitution ==
    WildcardLookup =>
        \A i \in 1..Len(Unwrap(get(Unwrap(aux.pkg_json), L_exports))[2]) :
            (WildcardApplies(i) /\ \A j \in 1..(i - 1) : ~SyntacticMatch(j))
                => aux.target = WildcardExpected(i)

T_feature_x == <<".", "/", "s", "r", "c", "/", "f", "e", "a", "t", "u", "r", "e", "/", "x", ".", "j", "s">>

C7_Witness ==
    /\ WildcardLookup
    /\ req.specifier = S_pkg_feature_x
    /\ get(Unwrap(get(Unwrap(aux.pkg_json), L_exports)), K_feature_star)
         = Some(JStr(T_feature))
    /\ \E i \in 1..Len(Unwrap(get(Unwrap(aux.pkg_json), L_exports))[2]) :
          WildcardApplies(i) /\ \A j \in 1..(i - 1) : ~SyntacticMatch(j)
    /\ aux.target = Some(T_feature_x)

----------------------------------------------------------------------------
(* Properties of typings discovery *)

TypingsDone == pc = "done" /\ op = "typings"

(* C8: the files list returned by discover_typings has at most 50 entries,
   the files pushed directly by the four sources included. *)
C8_AtMostFiftyFiles == TypingsDone => Len(resp.files) <= 50

\* the directory d lies n levels below the directory s (0: d is s)
LevelsBelow(s, d, n) ==
    LET cs == Canon(fs, s)
        cd == Canon(fs, d)
    IN  /\ Len(cd) = Len(cs) + n
        /\ SubSeq(cd, 1, Len(cs)) = cs

WithinTwoLevels(s, d) == \E n \in 0..2 : LevelsBelow(s, d, n)

(* C9: every file a sibling-discovery pass adds lies in the directory the
   pass started from or at most 2 directory levels below it, and the pass
   reads no directory deeper than 2 levels below that directory. *)
C9_SiblingDiscoveryDepth ==
    TypingsDone =>
        /\ \A r \in aux.reads : WithinTwoLevels(r[1], r[2])
        /\ \A r \in aux.pushed :
              /\ IsSome(Parent(r[2]))
              /\ WithinTwoLevels(r[1], Unwrap(Parent(r[2])))

\* a pass read a directory 2 levels below its start that has a subdirectory,
\* neither node_modules nor hidden, with a declaration file in it
C9_Witness ==
    /\ TypingsDone
    /\ \E r \in aux.reads :
          /\ LevelsBelow(r[1], r[2], 2)
          /\ \E x \in fs.files :
                /\ Len(x) = Len(Canon(fs, r[2])) + 2
                /\ SubSeq(x, 1, Len(x) - 2) = Canon(fs, r[2])
                /\ x[Len(x) - 1] # L_node_modules
                /\ ~starts_with(x[Len(x) - 1], L_dot)
                /\ IsDeclarationName(x[Len(x)])

(* C10: the files list of a TypingsResponse is sorted ascending and has no
   duplicate entry. *)
C10_FilesSortedAndDistinct ==
    TypingsDone =>
        /\ \A i \in 1..(Len(resp.files) - 1) : StrLeq(resp.files[i], resp.files[i + 1])
        /\ \A i, j \in 1..Len(resp.files) : i < j => resp.files[i] # resp.files[j]

\* one file was pushed three times, once of them by the sibling scan, and
\* the pushes were not in ascending order
C10_Witness ==
    /\ TypingsDone
    /\ \E i, j, k \in 1..Len(aux.files) :
          /\ i < j /\ j < k
          /\ aux.files[i] = aux.files[j] /\ aux.files[j] = aux.files[k]
          /\ \E r \in aux.pushed : r[2] = aux.files[i]
    /\ \E i \in 1..(Len(aux.files) - 1) : StrLess(aux.files[i + 1], aux.files[i])
    /\ Len(resp.files) > 1

\* the value of the manifest's "types" field of the package foo
ManifestTypes ==
    LET pkg_json == read_package_json(fs, Y_pkg_dir)
    IN  IF IsSome(pkg_json) THEN and_then_as_str(get(Unwrap(pkg_json), L_types))
        ELSE None

\* the declaration files below the directory dir
DeclarationFilesIn(dir) ==
    {x \in fs.files : /\ Len(x) > Len(Canon(fs, dir))
                      /\ SubSeq(x, 1, Len(Canon(fs, dir))) = Canon(fs, dir)
                      /\ IsDeclarationName(x[Len(x)])}

\* the types field names an existing declaration file, the package holds
\* no other declaration file, and no @types package exists for it
OnlyTypesFile ==
    /\ req.package_name = Y_foo
    /\ IsSome(ManifestTypes)
    /\ IsDeclarationName(Unwrap(ManifestTypes))
    /\ is_file(fs, Join(Y_pkg_dir, Unwrap(ManifestTypes)))
    /\ DeclarationFilesIn(Y_pkg_dir) = {Canon(fs, Join(Y_pkg_dir, Unwrap(ManifestTypes)))}
    /\ ~exists(fs, Y_at_types_dir)

(* C11: when the manifest's types field names an existing declaration file
   and the package holds no other declaration file, discover_typings returns
   the package name as given and a files list of exactly that one path. *)
C11_SingleTypesFile ==
    (TypingsDone /\ OnlyTypesFile) =>
        /\ resp.package_name = req.package_name
        /\ Len(resp.files) = 1
        /\ Canon(fs, resp.files[1]) = Canon(fs, Join(Y_pkg_dir, Unwrap(ManifestTypes)))

----------------------------------------------------------------------------
(* Properties of resolve_package_dir *)

LocateDone == op = "locate" /\ pc = "done"

\* an iteration that does not return moves to a strictly shorter path
LocateShorter ==
    (pc = "pop" /\ pc' = "probe") => Len(aux'.current) < Len(aux.current)

(* C12: resolve_package_dir terminates for every start directory, optional
   project_root and package name, every iteration that does not return
   moving to a strictly shorter parent path; a package that no probed
   node_modules holds gives None. *)
C12_LocateTerminates ==
    /\ [][LocateShorter]_vars
    /\ <>LocateDone
    /\ [](LocateDone =>
            (resp = None <=>
                \A d \in aux.probed :
                    ~exists(fs, Join(Join(d, L_node_modules), req.package))))

\* an absent package, searched from a relative start through three
\* directories
C12_Witness ==
    /\ LocateDone
    /\ resp = None
    /\ ~IsAbsolute(req.start)
    /\ Cardinality(aux.probed) >= 3

ProperAncestor(a, b) == Len(a) < Len(b) /\ SubSeq(b, 1, Len(a)) = a

(* C13: with a project_root, resolve_package_dir never probes node_modules
   in a directory that is a proper ancestor of project_root. *)
C13_NeverAboveProjectRoot ==
    (op = "locate" /\ IsSome(req.project_root)) =>
        \A d \in aux.probed :
            ~ProperAncestor(Canon(fs, d), Canon(fs, Unwrap(req.project_root)))

----------------------------------------------------------------------------
(* Properties of resolve_with_extensions *)

ExtensionsDone == op = "extensions" /\ pc = "done"

\* the candidates in the order of the claim: the target, target+ext for
\* each extension, and for a directory target/index+ext for each extension
ExtensionCandidates ==
    <<req.target>>
    \o [i \in 1..Len(req.extensions) |-> req.target \o req.extensions[i]]
    \o (IF is_dir(fs, req.target)
        THEN [i \in 1..Len(req.extensions) |->
                 Join(req.target, L_index \o req.extensions[i])]
        ELSE <<>>)

ExistingCandidates ==
    {k \in 1..Len(ExtensionCandidates) : is_file(fs, ExtensionCandidates[k])}

(* C14: resolve_with_extensions returns the first existing regular file of
   the candidate sequence target, target+ext (extensions in caller order),
   and for a directory target/index+ext (in caller order), and None when no
   candidate is one; a returned path is an existing regular file. *)
C14_FirstExistingCandidate ==
    ExtensionsDone =>
        IF ExistingCandidates = {}
        THEN resp = None
        ELSE /\ resp = Some(ExtensionCandidates[
                            CHOOSE k \in ExistingCandidates :
                                \A j \in ExistingCandidates : k <= j])
             /\ is_file(fs, Unwrap(resp))

\* the target is a directory with an index file, the first extension's
\* candidate is a directory, and a later extension's candidate is returned
C14_Witness ==
    /\ ExtensionsDone
    /\ is_dir(fs, req.target)
    /\ Len(req.extensions) >= 2
    /\ is_dir(fs, req.target \o req.extensions[1])
    /\ is_file(fs, Join(req.target, L_index \o req.extensions[2]))
    /\ resp = Some(req.target \o req.extensions[2])

----------------------------------------------------------------------------
(* Properties of analyze_module_native *)

AnalyzeDone == op = "analyze" /\ pc = "done"

\* the module's import sources, and the names the claim requires among its
\* exports
RequiredImports ==
    {req.source[2][i][2] :
        i \in {j \in 1..Len(req.source[2]) : req.source[2][j][1] = "Import"}}

PlainVarNames(item) ==
    {item[2][k][2] : k \in {j \in 1..Len(item[2]) : item[2][j][1] = "Ident"}}

RequiredExports ==
    UNION {IF req.source[2][i][1] = "ExportVar" THEN PlainVarNames(req.source[2][i])
           ELSE IF req.source[2][i][1] = "ExportDefaultExpr" THEN {A_default}
           ELSE {} : i \in 1..Len(req.source[2])}

(* C15: for a module that parses, analyze returns imports with the source of
   every import declaration, and exports with every identifier of an
   exported const/let/var with a plain identifier binding and "default" for
   every export default expression. *)
C15_AnalyzeCollects ==
    (op = "analyze" /\ pc = "visit") ~>
        (/\ AnalyzeDone
         /\ resp[1] = "ok"
         /\ RequiredImports \subseteq resp[2].imports
         /\ RequiredExports \subseteq resp[2].exports)

(* C16: for a readable file that parses as a module, analyze terminates and
   returns an AnalyzeResponse. *)
C16_AnalyzeTerminates ==
    (op = "analyze" /\ pc = "visit") ~> (AnalyzeDone /\ resp[1] = "ok")

----------------------------------------------------------------------------
(* Properties of batch_discover_typings *)

BatchDone == op = "batch" /\ pc = "done"

(* C17: batch_discover_typings(names, root) returns one response per name,
   in input order, each the response of discover_typings for that name. *)
C17_BatchIsMapOfSingle ==
    BatchDone =>
        /\ Len(resp) = Len(req.package_names)
        /\ \A i \in 1..Len(req.package_names) :
              resp[i] = discover_typings_native(fs, req.package_names[i],
                                                req.project_root)

\* a batch of three with a repeated name and a package without typings
C17_Witness ==
    /\ BatchDone
    /\ Len(req.package_names) = 3
    /\ req.package_names[1] = req.package_names[3]
    /\ resp[2].files = <<>>
    /\ resp[1].files # <<>>

----------------------------------------------------------------------------
(* Properties of concurrent calls *)

Returned(i) == op = "concurrent" /\ resp[i][1] = "returned"

(* C18: resolve, discover_typings and analyze keep no state between calls:
   under any interleaving of concurrent calls over an unchanged filesystem,
   a call that returns gives the response it gives when run alone; the
   visited set and the file count of one discover_typings call never affect
   another call. *)
C18_CallsAreIndependent ==
    \A i \in 1..NumCalls : Returned(i) => resp[i][2] = Alone(fs, req[i])

\* two overlapping discover_typings calls for the same package, in a
\* directory with more declaration files than the limit, have both returned
C18_Witness ==
    /\ Returned(1) /\ Returned(2)
    /\ aux.overlapped
    /\ req[1].kind = "typings" /\ req[2] = req[1]
    /\ Len(resp[1][2].files) >= MAX_FILES_PER_PACKAGE
    /\ aux.calls[1].st.visited \cap aux.calls[2].st.visited # {}

----------------------------------------------------------------------------
(* Properties of select_export_target *)

SelectDone == op = "select" /\ pc = "done"

\* the caller's i-th condition is a key of the map
Present(i) == IsSome(get(req.value, req.conditions[i]))

\* the recursive resolution of what the map holds under key k
Resolution(k) == select_export_target(Unwrap(get(req.value, k)), req.conditions)

\* the i-th condition is a key of the map and its value yields a target
Resolves(i) == Present(i) /\ IsSome(Resolution(req.conditions[i]))

(* C19: on a condition map, select_export_target returns the recursive
   resolution of the first condition, in caller-supplied order, that is a key
   of the map; only when none of the caller's conditions is a key is the
   literal key "default" tried; otherwise the result is none. *)
C19_FirstPresentCondition ==
    SelectDone =>
        /\ \A i \in 1..Len(req.conditions) :
              (Present(i) /\ \A j \in 1..(i - 1) : ~Present(j))
                  => resp = Resolution(req.conditions[i])
        /\ (\A i \in 1..Len(req.conditions) : ~Present(i))
              => resp = IF IsSome(get(req.value, L_default))
                        THEN Resolution(L_default) ELSE None

(* C19, amended: the result is the resolution of the first condition, in
   caller-supplied order, that is a key of the map and whose value yields a
   target; when no condition yields one, it is the resolution of the key
   "default" if the map has it; otherwise none. *)
C19_FirstResolvingCondition ==
    SelectDone =>
        /\ \A i \in 1..Len(req.conditions) :
              (Resolves(i) /\ \A j \in 1..(i - 1) : ~Resolves(j))
                  => resp = Resolution(req.conditions[i])
        /\ (\A i \in 1..Len(req.conditions) : ~Resolves(i))
              => resp = IF IsSome(get(req.value, L_default))
                        THEN Resolution(L_default) ELSE None

\* the first condition is a key whose value yields nothing, and the target
\* comes from the second condition
C19_Witness ==
    /\ SelectDone
    /\ Len(req.conditions) = 2
    /\ Present(1) /\ ~Resolves(1) /\ Resolves(2)
    /\ resp = Resolution(req.conditions[2])
    /\ IsSome(resp)

----------------------------------------------------------------------------
(* Properties of the wildcard lookup of resolve_exports *)

\* pair i is the first wildcard key, in iteration order, that matches the
\* requested key, which is no exact key and is long enough to hold the
\* pattern's prefix and suffix side by side
FirstSyntacticMatch(i) ==
    /\ ~IsSome(get(Unwrap(get(Unwrap(aux.pkg_json), L_exports)),
                   RequestedKey(aux.subpath)))
    /\ SyntacticMatch(i)
    /\ \A j \in 1..(i - 1) : ~SyntacticMatch(j)
    /\ Len(RequestedKey(aux.subpath))
         >= Len(Unwrap(get(Unwrap(aux.pkg_json), L_exports))[2][i][1]) - 1

(* C20: when several wildcard keys of the exports object syntactically match
   the requested key, only the first of them in iteration order is used: its
   value alone decides the target, and later matching keys are never
   consulted. *)
C20_OnlyFirstWildcardKey ==
    (WildcardLookup /\ ~IsPanic(aux.target)) =>
        \A i \in 1..Len(Unwrap(get(Unwrap(aux.pkg_json), L_exports))[2]) :
            FirstSyntacticMatch(i) =>
                aux.target =
                    IF IsSome(select_export_target(
                           Unwrap(get(Unwrap(aux.pkg_json), L_exports))[2][i][2],
                           aux.conditions))
                    THEN WildcardExpected(i)
                    ELSE None

----------------------------------------------------------------------------
(* Properties of the fallback to resolve_pkg_main *)

\* the extensions in force for the call
Extensions ==
    (IF IsSome(opts) THEN Unwrap(opts) ELSE DefaultResolveOptions).extensions

\* a bare specifier whose package was located, and a response was returned
LocatedPackage ==
    /\ ResolveDone
    /\ resp.outcome = "ok"
    /\ aux.bare
    /\ IsSome(aux.pkg_dir)

\* what resolve_pkg_main gives for the located package
MainResult == resolve_pkg_main(fs, Unwrap(aux.pkg_dir), aux.pkg_json, Extensions)

(* C21: for a located package, resolve_pkg_main is consulted if and only if
   the exports map yields no target: without a target the response is
   resolve_pkg_main's result; with a target the response is the probe of
   that target alone, so that an unprobeable target gives resolved_path =
   None with matched_export set and no fallback to the manifest fields. *)
C21_MainOnlyWithoutExportsTarget ==
    LocatedPackage =>
        /\ ~IsSome(aux.target)
              => /\ resp.matched_export = None
                 /\ resp.resolved_path = MainResult
        /\ IsSome(aux.target)
              => /\ IsSome(resp.matched_export)
                 /\ resp.resolved_path =
                        resolve_path_like(fs, Unwrap(aux.pkg_dir),
                                          Unwrap(resp.matched_export), Extensions)

\* an exports target that names no file, in a package whose directory index
\* resolve_pkg_main would have found
C21_Witness ==
    /\ LocatedPackage
    /\ IsSome(aux.target)
    /\ IsSome(resp.matched_export)
    /\ resp.resolved_path = None
    /\ IsSome(MainResult)

----------------------------------------------------------------------------
(* Properties of resolve_pkg_main *)

MainDone == op = "main" /\ pc = "done"

\* the value of manifest field k when it is a string
Field(k) ==
    IF IsSome(req.pkg_json) THEN and_then_as_str(get(Unwrap(req.pkg_json), k))
    ELSE None

\* the types/typings entry: "types" when the manifest has that key,
\* "typings" otherwise
TypesEntry ==
    IF IsSome(req.pkg_json) /\ IsSome(get(Unwrap(req.pkg_json), L_types))
    THEN Field(L_types) ELSE Field(L_typings)

\* the entries in their fixed order
MainEntries == <<TypesEntry, Field(L_module), Field(L_main), Field(L_browser)>>

\* the probe of entry i: none when the entry is absent or not a string
EntryProbe(i) ==
    IF IsSome(MainEntries[i])
    THEN resolve_with_extensions(fs, Join(req.pkg_dir, Unwrap(MainEntries[i])),
                                 req.extensions)
    ELSE None

(* C22: resolve_pkg_main returns the first successful probe in the order
   types/typings, module, main, browser; an entry that is absent, not a
   string, or whose target cannot be probed is skipped, so a package with a
   resolvable types field and a main field resolves to the declaration
   file. *)
C22_FirstSuccessfulField ==
    MainDone =>
        \A i \in 1..Len(MainEntries) :
            (IsSome(EntryProbe(i)) /\ \A j \in 1..(i - 1) : ~IsSome(EntryProbe(j)))
                => resp = EntryProbe(i)

\* both the types field and the main field can be probed, and the
\* declaration file is returned
C22_Witness ==
    /\ MainDone
    /\ Field(L_types) = Some(F_types_index)
    /\ IsSome(EntryProbe(1)) /\ IsSome(EntryProbe(3))
    /\ resp = Some(Join(req.pkg_dir, F_types_index))
    /\ resp # EntryProbe(3)

\* no entry of the manifest can be probed: there is no manifest, or none of
\* its fields resolves
NoEntryResolves == \A i \in 1..Len(MainEntries) : ~IsSome(EntryProbe(i))

\* the index files of the package directory, in the caller's order of
\* extensions
IndexCandidates ==
    [i \in 1..Len(req.extensions) |->
        Join(req.pkg_dir, L_index \o req.extensions[i])]

\* the package directory itself, then the directory's path with each
\* extension appended
SelfCandidates ==
    <<req.pkg_dir>> \o [i \in 1..Len(req.extensions) |->
                           req.pkg_dir \o req.extensions[i]]

\* resp is the first regular file of the candidates, none if there is none
FirstFileOf(candidates) ==
    IF \E i \in 1..Len(candidates) : is_file(fs, candidates[i])
    THEN \E i \in 1..Len(candidates) :
            /\ is_file(fs, candidates[i])
            /\ \A j \in 1..(i - 1) : ~is_file(fs, candidates[j])
            /\ resp = Some(candidates[i])
    ELSE resp = None

(* C23: when no manifest field resolves, or the manifest is absent or
   unreadable, resolve_pkg_main returns <package_dir>/index<ext> for the
   first extension in caller order for which that file exists, and none
   otherwise; it returns no other path. *)
C23_IndexFallbackOnly ==
    (MainDone /\ NoEntryResolves) => FirstFileOf(IndexCandidates)

(* C23, amended: when no manifest field resolves, resolve_pkg_main returns
   the first regular file among the package directory path itself, that
   path with each extension appended in caller order, and
   <package_dir>/index<ext> for each extension in caller order; none if
   there is no such file. *)
C23_SelfThenIndexFallback ==
    (MainDone /\ NoEntryResolves) => FirstFileOf(SelfCandidates \o IndexCandidates)

\* no manifest, index.js and index.ts in the directory and no file beside
\* it: the index file of the caller's first matching extension is returned
C23_Witness ==
    /\ MainDone /\ NoEntryResolves
    /\ ~IsSome(req.pkg_json)
    /\ is_file(fs, Join(req.pkg_dir, F_index_js))
    /\ is_file(fs, Join(req.pkg_dir, R_index_ts))
    /\ \A i \in 1..Len(SelfCandidates) : ~is_file(fs, SelfCandidates[i])
    /\ resp = Some(Join(req.pkg_dir, L_index \o req.extensions[1]))

----------------------------------------------------------------------------
(* Properties of select_export_target_with_conditions *)

TypesSelectDone == op = "select_types" /\ pc = "done"

\* the strings that are the direct value of a "types" key of a condition
\* map, at any level of the value
RECURSIVE DirectTypesStrings(_)
DirectTypesStrings(v) ==
    IF v[1] = "arr" THEN UNION {DirectTypesStrings(v[2][i]) : i \in 1..Len(v[2])}
    ELSE IF v[1] = "obj"
         THEN UNION {DirectTypesStrings(v[2][i][2]) : i \in 1..Len(v[2])}
              \cup {v[2][i][2][2] : i \in {j \in 1..Len(v[2]) :
                                            /\ v[2][j][1] = L_types
                                            /\ v[2][j][2][1] = "str"}}
    ELSE {}

(* C24: the types-prioritized selector returns a string s only if s ends in
   .d.ts, .d.mts or .d.cts, or s is the direct string value of a "types" key
   of a condition map; a string without such a suffix that is reached
   through "typings", "default", an array element or as a bare exports
   string is never returned. *)
C24_DeclarationOrTypesKey ==
    (TypesSelectDone /\ IsSome(resp)) =>
        \/ IsDeclarationName(Unwrap(resp))
        \/ Unwrap(resp) \in DirectTypesStrings(req.value)

\* a script under a "types" key is returned although the map also reaches
\* a script through "default"
C24_Witness ==
    /\ TypesSelectDone
    /\ IsSome(resp)
    /\ ~IsDeclarationName(Unwrap(resp))
    /\ Unwrap(resp) \in DirectTypesStrings(req.value)
    /\ get(req.value, L_default) = Some(JStr(T_index_js))
    /\ resp # Some(T_index_js)

----------------------------------------------------------------------------
(* Properties of collect_pats *)

\* the identifiers a binding pattern binds: rest patterns left aside, holes
\* of an array pattern skipped
RECURSIVE BoundNames(_)
BoundNames(pat) ==
    IF pat[1] = "Ident" THEN {pat[2]}
    ELSE IF pat[1] = "Array"
         THEN UNION {IF IsSome(pat[2][i]) THEN BoundNames(Unwrap(pat[2][i])) ELSE {} :
                        i \in 1..Len(pat[2])}
    ELSE IF pat[1] = "Object"
         THEN UNION {IF pat[2][i][1] = "KeyValue" THEN BoundNames(pat[2][i][3])
                     ELSE IF pat[2][i][1] = "Assign" THEN {pat[2][i][2]}
                     ELSE {} : i \in 1..Len(pat[2])}
    ELSE {}

\* the handler has run its match for the module's first item, an export
\* declaration that wraps a variable statement
VisitedExportVar ==
    /\ op = "analyze" /\ pc = "visit"
    /\ aux.frames >= 1
    /\ req.source[2][1][1] = "ExportVar"

(* C25: for an export declaration wrapping a variable statement, every
   identifier bound by the statement is added to exports, including those
   bound inside array destructuring (each non-hole element, recursively) and
   inside object destructuring; only rest patterns are ignored. *)
C25_EveryBoundIdentifierExported ==
    VisitedExportVar =>
        \A k \in 1..Len(req.source[2][1][2]) :
            BoundNames(req.source[2][1][2][k]) \subseteq aux.visitor.exports

----------------------------------------------------------------------------
(* Properties of prefer_cjs *)

\* the value of the package's exports field
ExportsValue == Unwrap(get(Unwrap(aux.pkg_json), L_exports))

\* a call with prefer_cjs = true on a package whose exports value is a
\* condition map with string targets under "import" and under "require"
PreferCjsCall ==
    /\ ResolveDone
    /\ resp.outcome = "ok"
    /\ Unwrap(opts).prefer_cjs
    /\ IsSome(aux.pkg_json)
    /\ IsSome(and_then_as_str(get(ExportsValue, L_import)))
    /\ IsSome(and_then_as_str(get(ExportsValue, L_require)))

(* C26: with prefer_cjs = true CommonJS is preferred for every
   caller-supplied conditions list: "require" is ahead of every other
   condition of the effective list, so a condition map holding both "import"
   and "require" resolves to its "require" target. *)
C26_PreferCjsSelectsRequire ==
    PreferCjsCall =>
        /\ aux.conditions[1] = L_require
        /\ aux.target = and_then_as_str(get(ExportsValue, L_require))

----------------------------------------------------------------------------
(* Properties of RingBuffer *)

\* the ids of a sequence of spans or summaries
Ids(spans) == [i \in 1..Len(spans) |-> spans[i].id]

(* C27: after any sequence of push and clear operations on a RingBuffer
   created with capacity c, for every c >= 0, len() <= c; a push at capacity
   evicts exactly the oldest stored span; and recent(n) returns the
   min(n, len()) most recently pushed spans, newest first. *)
C27_RingBufferBounded ==
    (op = "ring") =>
        /\ Len(aux.data) <= aux.capacity
        /\ (req.op = "push" /\ Len(aux.before) = aux.capacity /\ aux.before # <<>>)
              => aux.data = Append(Tail(aux.before), req.span)
        /\ (req.op = "push" /\ Len(aux.before) < aux.capacity)
              => aux.data = Append(aux.before, req.span)
        /\ req.op = "recent"
              => /\ Len(resp) = IF req.limit < Len(aux.data) THEN req.limit
                                ELSE Len(aux.data)
                 /\ \A i \in 1..Len(resp) :
                        resp[i].id = aux.data[Len(aux.data) + 1 - i].id

----------------------------------------------------------------------------
(* Properties of the probe of an exports target *)

\* <package_dir>/t for the selected target t, the package directory applied
\* once
TargetInPackage ==
    Join(Unwrap(aux.pkg_dir), trim_start_matches(Unwrap(aux.target), L_dot_slash))

(* C28: for a located package and a selected exports target t, the file
   probed by resolve is <package_dir>/t, with the package directory applied
   exactly once, whether the importer path, and hence the package directory,
   is absolute or relative. *)
C28_PackageDirAppliedOnce ==
    (LocatedPackage /\ IsSome(aux.target)) =>
        resp.resolved_path = resolve_with_extensions(fs, TargetInPackage, Extensions)

----------------------------------------------------------------------------
(* Properties of the captured segment of a wildcard key *)

\* the length of the prefix and the suffix of pattern key i together
PatternLength(i) == Len(ExportsValue[2][i][1]) - 1

\* find_map reaches pair i: no earlier pair matched the requested key with
\* a value that yields a target
Consulted(i) ==
    \A j \in 1..(i - 1) :
        \/ ~SyntacticMatch(j)
        \/ /\ PatternLength(j) <= Len(RequestedKey(aux.subpath))
           /\ ~IsSome(select_export_target(ExportsValue[2][j][2], aux.conditions))

(* C29: a wildcard key P*S is accepted as matching a requested key only when
   len(P) + len(S) <= len(key), so that the captured segment
   key[len(P) .. len(key) - len(S)] is a valid, possibly empty, slice for
   every exports key and every requested subpath. *)
C29_CapturedSegmentIsValid ==
    (WildcardLookup /\ ~IsSome(get(ExportsValue, RequestedKey(aux.subpath)))) =>
        /\ \A i \in 1..Len(ExportsValue[2]) :
              (Consulted(i) /\ SyntacticMatch(i))
                  => PatternLength(i) <= Len(RequestedKey(aux.subpath))
        /\ resp.outcome # "panic"

----------------------------------------------------------------------------
(* Properties of the fallback for a subpath *)

\* the located package has a readable manifest without an exports field
ManifestWithoutExports ==
    /\ LocatedPackage
    /\ IsSome(aux.pkg_json)
    /\ ~IsSome(get(Unwrap(aux.pkg_json), L_exports))

\* the response to the same request for the package name alone
PackageRootResponse ==
    resolve_module_native(fs, [req EXCEPT !.specifier = aux.pkg_name], opts)

(* C30: for a located package whose manifest has no exports field,
   resolving "pkg/<subpath>" returns the same resolved_path as resolving
   "pkg", which is resolve_pkg_main's result, for every subpath: the
   subpath is not used in the fallback. *)
C30_SubpathIgnoredInFallback ==
    ManifestWithoutExports =>
        /\ resp.resolved_path = PackageRootResponse.resolved_path
        /\ resp.resolved_path = MainResult

\* "pkg/feature/x" or "pkg/a" of a package without exports resolved to the
\* file the main field names
C30_Witness ==
    /\ ManifestWithoutExports
    /\ aux.subpath # L_dot
    /\ get(Unwrap(aux.pkg_json), L_main) = Some(JStr(T_cjs))
    /\ resp.resolved_path = Some(Join(Unwrap(aux.pkg_dir), T_cjs))

====
